---- MODULE Spec2Model ----
(***************************************************************************)
(* A model of the ingestion, deduplication and artifact-caching pipeline   *)
(* of signal-daily-digest: the content store (server/db.js), the insights  *)
(* cache and archive (server/db.js), the concurrency limiter and the fetch *)
(* phase (server/rssFetcher.js, server/newsroomScraper.js) and the daily   *)
(* run (server/scheduler.js, archiver.js).                                 *)
(*                                                                         *)
(* Time is counted in whole days: the clock `now` is Date.now() / NOW().   *)
(* Each component has its own specification (SpecStore, SpecArchive, ...)  *)
(* over the same variables; a specification leaves the variables of the    *)
(* other components unchanged.                                             *)
(***************************************************************************)
EXTENDS Integers, Sequences, FiniteSets, TLC

VARIABLES
    now,            \* the clock, in days
    clock,          \* the clock, in hours (UTC), where the time of day matters
    articles,       \* table articles: a set of rows
    articleSeq,     \* the SERIAL sequence of articles.id
    upserts,        \* history: per link key, its saveArticle calls (first, last, number)
    archive,        \* table insights_archive: a set of rows
    archiveSeq,     \* the SERIAL sequence of insights_archive.id
    cache,          \* insightsCache.cache: the Map, in insertion order
    call,           \* per request slot: the saveInsights / getter call in flight
    hist,           \* history: per category, when saveInsights last wrote the archive
    active,         \* createLimiter: active
    queue,          \* createLimiter: queue (operation ids, in submission order)
    op,             \* per operation submitted to the limiter: its state
    order,          \* history: the operations in the order they were started
    feed,           \* fetchAllFeeds: per RSS source, the fetchRSS call
    scraper,        \* fetchAllFeeds: per scraper, its call
    fetch,          \* fetchAllFeeds: position and return value
    run,            \* per run of runDailyDigest: position, locals and event trace
    digestState,    \* scheduler.js digestState
    jsonl,          \* data/signal-archive.jsonl: the lines appended
    lru,            \* an LRUCache instance: this.cache, the Map in insertion order
    lruUse,         \* history: the keys of lru by last use (get, set), with their set time
    lruRet,         \* the last LRUCache method called: its key, return value and log line
    phase,          \* per caller of fetchAllFeeds: the call in progress, by counts
    scrape,         \* a call of a scrape adapter: position, response and return value
    mail,           \* calls of sendDigestEmail: position, locals, provider calls, return value
    asked,          \* the last call of getArticles: its filters and return value
    sweep,          \* calls of cleanOldArticles: the last return value, the rows removed
    rollup,         \* steps 4 to 6 of runDailyDigest under the process's time zone
    env,            \* process.env: which of the keys and addresses are set
    trig,           \* the trigger surface: last request and reply, the probe's timer
    demand,         \* POST /api/insights: position, category, reply of the request in progress
    refresh         \* POST /api/insights/refresh: lastForceRefreshTime, the requests in flight

storeVars   == <<articles, articleSeq, upserts>>
archiveVars == <<archive, archiveSeq, cache, call, hist>>
limiterVars == <<active, queue, op, order>>
fetchVars   == <<feed, scraper, fetch>>
runVars     == <<run, digestState, jsonl>>
lruVars     == <<lru, lruUse, lruRet>>
\* The components exercised on their own.
unitVars    == <<lruVars, phase, scrape, mail, asked, sweep, rollup, env, trig, demand, refresh>>
vars == <<now, clock, storeVars, archiveVars, limiterVars, fetchVars, runVars, unitVars>>

\* A value that may be missing (undefined, null, NULL) is <<>> or <<x>>.
None == <<>>
Some(x) == <<x>>

Min(a, b) == IF a < b THEN a ELSE b
Max(a, b) == IF a > b THEN a ELSE b

\* x || d
OrElse(x, d) == IF x = None THEN d ELSE x[1]

(***************************************************************************)
(* Bounds of the model                                                     *)
(***************************************************************************)
MaxTime == 4        \* the clock stops advancing here
MaxUpserts == 3     \* saveArticle calls per behaviour

(***************************************************************************)
(* The clock                                                               *)
(***************************************************************************)
Tick ==
    /\ now < MaxTime
    /\ now' = now + 1

(***************************************************************************)
(* Content store: saveArticle (server/db.js)                               *)
(***************************************************************************)
\* A text is a name and a length; substring(0, n) keeps the name and cuts the length.
Text(id, len) == [id |-> id, len |-> len]
Substring(s, n) == [id |-> s.id, len |-> Min(s.len, n)]
EmptyText == Text("", 0)

SummaryLimit == 5000

\* The articles the adapters hand to saveArticle: per link, two versions that
\* differ in every field. The ICE scraper emits link '' when a row has no href.
Links == {"", "l1", "l2"}
ArticleVersion(v) ==
    IF v = 1
    THEN [title |-> Some("t1"), pubDate |-> None, source |-> Some("s1"),
          category |-> Some("mortgage"), summary |-> Some(Text("sum1", 300)),
          originalContent |-> None, imageUrl |-> None]
    ELSE [title |-> Some("t2"), pubDate |-> Some(0), source |-> Some("s2"),
          category |-> Some("competitor-intel"), summary |-> Some(Text("sum2", 6000)),
          originalContent |-> Some(Text("body2", 500)), imageUrl |-> Some("img2")]
Article(l, v) == [link |-> IF l = "" THEN None ELSE Some(l)] @@ ArticleVersion(v)
ArticleInputs == {Article(l, v) : l \in Links, v \in {1, 2}}

\* The parameter list of the INSERT: title || '', link || '', ...
ArticleParams(a, t) ==
    [title            |-> OrElse(a.title, ""),
     link             |-> OrElse(a.link, ""),
     pub_date         |-> OrElse(a.pubDate, t),
     source           |-> OrElse(a.source, ""),
     category         |-> OrElse(a.category, ""),
     summary          |-> Substring(OrElse(a.summary, EmptyText), SummaryLimit),
     original_content |-> Substring(OrElse(a.originalContent, EmptyText), SummaryLimit),
     image_url        |-> a.imageUrl]

LinkKey(a) == OrElse(a.link, "")

RowsOf(rows, k) == {r \in rows : r.link = k}

\* INSERT without the ON CONFLICT clause.
UpsertNoConflict(rows, a, id, t) ==
    rows \cup {ArticleParams(a, t) @@ [id |-> id, saved_at |-> t]}

\* An upsert that replaces the stored row by the new one, saved_at included.
UpsertReplaceRow(rows, a, id, t) ==
    LET p == ArticleParams(a, t)
        old == RowsOf(rows, p.link)
    IN  IF old = {}
        THEN rows \cup {p @@ [id |-> id, saved_at |-> t]}
        ELSE (rows \ old) \cup {p @@ [id |-> r.id, saved_at |-> t] : r \in old}

\* INSERT INTO articles ... ON CONFLICT (link) DO UPDATE SET title, category,
\* summary, original_content, image_url; saved_at DEFAULT CURRENT_TIMESTAMP.
Upsert(rows, a, id, t) ==
    LET p == ArticleParams(a, t)
        old == RowsOf(rows, p.link)
    IN  IF old = {}
        THEN rows \cup {p @@ [id |-> id, saved_at |-> t]}
        ELSE (rows \ old) \cup
             {[r EXCEPT !.title = p.title, !.category = p.category,
                        !.summary = p.summary,
                        !.original_content = p.original_content,
                        !.image_url = p.image_url] : r \in old}

\* The saveArticle calls made so far with the links of ArticleInputs.
UpsertCount == LET F[S \in SUBSET Links] ==
                     IF S = {} THEN 0
                     ELSE LET k == CHOOSE x \in S : TRUE
                          IN  upserts[k].n + F[S \ {k}]
               IN  F[Links]

StoreState == [articles |-> articles, articleSeq |-> articleSeq, upserts |-> upserts]

SetStore(st) ==
    /\ articles' = st.articles
    /\ articleSeq' = st.articleSeq
    /\ upserts' = st.upserts

\* One call of saveArticle at time t: a single statement of the database.
SaveOne(st, a, t) ==
    [articles   |-> Upsert(st.articles, a, st.articleSeq, t),
     articleSeq |-> st.articleSeq + 1,
     upserts    |-> [st.upserts EXCEPT ![LinkKey(a)] =
                       [first |-> IF @.n = 0 THEN t ELSE @.first, last |-> t,
                        n |-> @.n + 1]]]

\* for (const article of items) await saveArticle(article)
RECURSIVE SaveAll(_, _, _)
SaveAll(st, items, t) ==
    IF items = <<>> THEN st
    ELSE SaveAll(SaveOne(st, Head(items), t), Tail(items), t)

SaveArticle(a) ==
    /\ UpsertCount < MaxUpserts
    /\ SetStore(SaveOne(StoreState, a, now))

(***************************************************************************)
(* Queries of the content store: getArticles (server/db.js)                *)
(***************************************************************************)
QueryLimit == 100       \* LIMIT 100
MaxStored == 3          \* saveArticle calls before the queries

\* filters: a missing (or empty) filter is None.
Filters(source, category, startDate, endDate, keyword) ==
    [source |-> source, category |-> category, startDate |-> startDate,
     endDate |-> endDate, keyword |-> keyword]

NoFilters == Filters(None, None, None, None, None)

FilterInputs ==
    {NoFilters,
     [NoFilters EXCEPT !.source = Some("s1")],
     [NoFilters EXCEPT !.startDate = Some(1)],
     [NoFilters EXCEPT !.keyword = Some("T1")],
     [NoFilters EXCEPT !.keyword = Some("SUM")],
     [NoFilters EXCEPT !.keyword = Some("zzz")],
     [NoFilters EXCEPT !.keyword = Some("t"), !.source = Some("s2")],
     [NoFilters EXCEPT !.keyword = Some("t"), !.category = Some("mortgage")],
     [NoFilters EXCEPT !.keyword = Some("t"), !.startDate = Some(1)],
     [NoFilters EXCEPT !.keyword = Some("t"), !.endDate = Some(0)]}

\* The filters present, in the order getArticles reads them.
FiltersSet(f) ==
    SelectSeq(<<"source", "category", "startDate", "endDate", "keyword">>,
              LAMBDA n : f[n] # None)

\* The highest $n the query text names: one placeholder per filter, the
\* keyword's being used for title and for summary.
Placeholders(f) == Len(FiltersSet(f))

\* params: one value pushed per filter, two for the keyword.
Params(f) == Len(FiltersSet(f)) + (IF f.keyword # None THEN 1 ELSE 0)

\* Lower case of the keywords used.
Lower(x) == CASE x = "T1" -> "t1" [] x = "SUM" -> "sum" [] OTHER -> x

\* The keywords that occur in a text, in lower case.
FragmentsOf(text) ==
    CASE text = "t1" -> {"t", "t1"}
      [] text = "t2" -> {"t", "t2"}
      [] text = "sum1" -> {"sum"}
      [] text = "sum2" -> {"sum"}
      [] OTHER -> {}

\* text ILIKE '%keyword%'
ILike(text, keyword) == Lower(keyword) \in FragmentsOf(Lower(text))

\* The WHERE clause.
Selected(r, f) ==
    /\ f.source # None => r.source = f.source[1]
    /\ f.category # None => r.category = f.category[1]
    /\ f.startDate # None => r.pub_date >= f.startDate[1]
    /\ f.endDate # None => r.pub_date <= f.endDate[1]
    /\ f.keyword # None => ILike(r.title, f.keyword[1]) \/ ILike(r.summary.id, f.keyword[1])

\* ORDER BY pub_date DESC: the orders the database may return the rows in.
NewestFirst(S) ==
    {q \in [1..Cardinality(S) -> S] :
       /\ \A i, j \in DOMAIN q : i < j => q[i] # q[j] /\ q[i].pub_date >= q[j].pub_date}

\* result.rows.map(row => ({ title: row.title, ... }))
FormatRow(r) ==
    [title |-> r.title, link |-> r.link, pubDate |-> r.pub_date, source |-> r.source,
     category |-> r.category, summary |-> r.summary,
     originalContent |-> r.original_content, imageUrl |-> r.image_url]

AskedInit == asked = [calls |-> 0, filters |-> NoFilters, ret |-> <<>>, failed |-> FALSE]

\* getArticles(filters): the database is out of reach (fails), or rejects a
\* statement bound to another number of values than it has placeholders,
\* and the catch block returns []; else the rows selected, newest first, at
\* most QueryLimit of them.
GetArticles(f, fails) ==
    \E q \in NewestFirst({r \in articles : Selected(r, f)}) :
      LET threw == fails \/ Params(f) # Placeholders(f)
          rows == SubSeq(q, 1, Min(Len(q), QueryLimit))
      IN  asked' = [calls |-> 1, filters |-> f, failed |-> fails,
                    ret |-> IF threw THEN <<>>
                            ELSE [i \in 1..Len(rows) |-> FormatRow(rows[i])]]

(***************************************************************************)
(* Retention: cleanOldArticles (server/db.js), run by the weekly cron job  *)
(* of initScheduler (server/scheduler.js)                                  *)
(***************************************************************************)
RetentionDays == 90     \* ninetyDaysAgo.setDate(ninetyDaysAgo.getDate() - 90)
MaxSweeps == 2          \* calls of cleanOldArticles followed
SweepDays == 1          \* days over which they are followed

\* Articles published on the day of the horizon of day 0 and the day before.
DatedArticles ==
    {[Article(l, 1) EXCEPT !.pubDate = d] :
       l \in {"l1", "l2"},
       d \in {Some(0 - RetentionDays - 1), Some(0 - RetentionDays)}}

SweepInit == sweep = [calls |-> 0, ret |-> None, failed |-> FALSE, gone |-> {}]

\* A sweep that also deletes the rows published at the horizon.
CleanOldArticlesThrough(ok) ==
    LET ninetyDaysAgo == now - RetentionDays
        old == {r \in articles : r.pub_date <= ninetyDaysAgo}
    IN  /\ sweep.calls < MaxSweeps
        /\ articles' = IF ok THEN articles \ old ELSE articles
        /\ sweep' = [calls |-> sweep.calls + 1, failed |-> ~ok,
                     ret |-> Some([removed |-> IF ok THEN Cardinality(old) ELSE 0]),
                     gone |-> IF ok THEN sweep.gone \cup
                                   {[row |-> r, horizon |-> ninetyDaysAgo] : r \in old}
                              ELSE sweep.gone]
        /\ UNCHANGED <<articleSeq, upserts>>

\* cleanOldArticles: DELETE FROM articles WHERE pub_date < $1 with the
\* instant 90 days ago, one statement, returning { removed: rowCount }; or
\* the statement fails and the catch block returns { removed: 0 }.
CleanOldArticles(ok) ==
    LET ninetyDaysAgo == now - RetentionDays
        old == {r \in articles : r.pub_date < ninetyDaysAgo}
    IN  /\ sweep.calls < MaxSweeps
        /\ articles' = IF ok THEN articles \ old ELSE articles
        /\ sweep' = [calls |-> sweep.calls + 1, failed |-> ~ok,
                     ret |-> Some([removed |-> IF ok THEN Cardinality(old) ELSE 0]),
                     gone |-> IF ok THEN sweep.gone \cup
                                   {[row |-> r, horizon |-> ninetyDaysAgo] : r \in old}
                              ELSE sweep.gone]
        /\ UNCHANGED <<articleSeq, upserts>>

(***************************************************************************)
(* The volatile cache: class LRUCache (server/db.js)                       *)
(***************************************************************************)
MaxSize == 10       \* new LRUCache(10, ...)
TtlDays == 1        \* 24 * 60 * 60 * 1000 ms

Categories == {"all", "mortgage"}
Specific == Categories \ {"all"}

CacheKeys(c) == {c[i].key : i \in 1..Len(c)}
CacheIndex(c, k) == CHOOSE i \in 1..Len(c) : c[i].key = k
CacheEntry(c, k) == c[CacheIndex(c, k)]
Without(c, k) == SelectSeq(c, LAMBDA e : e.key # k)

\* A delete that drops every entry.
CacheDeleteAll(c, k) == <<>>

\* cache.delete(key), cache.clear()
CacheDelete(c, k) == Without(c, k)
CacheClear(c) == <<>>

Expired(e, t) == t - e.timestamp > TtlDays

\* A set that evicts the newest key at capacity.
LruSetEvictNewest(c, k, v, t, maxSize) ==
    LET c1 == IF k \in CacheKeys(c) THEN Without(c, k) ELSE c
        c2 == IF Len(c1) >= maxSize THEN SubSeq(c1, 1, Len(c1) - 1) ELSE c1
    IN  Append(c2, [key |-> k, value |-> v, timestamp |-> t])

\* set(key, value) of a cache of maxSize: re-insert at the end, evicting the
\* first key at capacity.
LruSet(c, k, v, t, maxSize) ==
    LET c1 == IF k \in CacheKeys(c) THEN Without(c, k) ELSE c
        c2 == IF Len(c1) >= maxSize THEN Tail(c1) ELSE c1
    IN  Append(c2, [key |-> k, value |-> v, timestamp |-> t])

\* insightsCache.set(key, value)
CacheSet(c, k, v, t) == LruSet(c, k, v, t, MaxSize)

\* A get that renews the timestamp of the entry it returns.
CacheGetSliding(c, k, t) ==
    IF k \notin CacheKeys(c) THEN [value |-> None, cache |-> c]
    ELSE LET e == CacheEntry(c, k)
         IN  IF Expired(e, t)
             THEN [value |-> None, cache |-> Without(c, k)]
             ELSE [value |-> Some(e.value),
                   cache |-> Append(Without(c, k), [e EXCEPT !.timestamp = t])]

\* get(key): the value returned (None for null) and the cache left behind.
CacheGet(c, k, t) ==
    IF k \notin CacheKeys(c) THEN [value |-> None, cache |-> c]
    ELSE LET e == CacheEntry(c, k)
         IN  IF Expired(e, t)
             THEN [value |-> None, cache |-> Without(c, k)]
             ELSE [value |-> Some(e.value), cache |-> Append(Without(c, k), e)]

\* has(key): whether the key is there and not expired, and the cache left behind.
CacheHas(c, k, t) ==
    IF k \notin CacheKeys(c) THEN [value |-> FALSE, cache |-> c]
    ELSE IF Expired(CacheEntry(c, k), t)
         THEN [value |-> FALSE, cache |-> Without(c, k)]
         ELSE [value |-> TRUE, cache |-> c]

\* An LRUCache of LruCapacity entries used on its own, with keys 1..NumKeys.
LruCapacity == 2        \* new LRUCache(maxSize)
NumKeys == 3            \* the keys used
LruDays == 2            \* the days the instance is used for
LruKeys == 1..NumKeys
LruValues == {"v1"}

Ret(method, k, value, log) == [method |-> method, key |-> k, value |-> value, log |-> log]

LruInit ==
    /\ lru = <<>>
    /\ lruUse = <<>>
    /\ lruRet = Ret("", 0, None, "")

\* The history after a use of key k set at time t: k is the last used; keys
\* that have left the cache are forgotten.
Used(use, k, t, c) ==
    SelectSeq(Append(SelectSeq(use, LAMBDA u : u.key # k), [key |-> k, setAt |-> t]),
              LAMBDA u : u.key \in CacheKeys(c))
Kept(use, c) == SelectSeq(use, LAMBDA u : u.key \in CacheKeys(c))
SetAt(use, k) == (CHOOSE u \in {use[i] : i \in 1..Len(use)} : u.key = k).setAt

LruSetOp(k, v) ==
    /\ lru' = LruSet(lru, k, v, now, LruCapacity)
    /\ lruUse' = Used(lruUse, k, now, lru')
    /\ lruRet' = Ret("set", k, None,
                     IF CacheKeys(lru) \ CacheKeys(lru') # {} THEN "Evicted oldest entry" ELSE "")

LruGetOp(k) ==
    LET g == CacheGet(lru, k, now)
    IN  /\ lru' = g.cache
        /\ lruUse' = IF g.value # None THEN Used(lruUse, k, SetAt(lruUse, k), lru')
                      ELSE Kept(lruUse, lru')
        /\ lruRet' = Ret("get", k, g.value,
                         IF k \in CacheKeys(lru) /\ g.value = None THEN "Entry expired" ELSE "")

LruHasOp(k) ==
    LET h == CacheHas(lru, k, now)
    IN  /\ lru' = h.cache
        /\ lruUse' = Kept(lruUse, lru')
        /\ lruRet' = Ret("has", k, Some(h.value), "")

LruDeleteOp(k) ==
    /\ lru' = CacheDelete(lru, k)
    /\ lruUse' = Kept(lruUse, lru')
    /\ lruRet' = Ret("delete", k, Some(k \in CacheKeys(lru)), "")

LruClearOp ==
    /\ lru' = CacheClear(lru)
    /\ lruUse' = <<>>
    /\ lruRet' = Ret("clear", 0, None, "")

(***************************************************************************)
(* Insights: what generateInsights (server/insightsGenerator.js) returns   *)
(***************************************************************************)
\* "A": a full result; "B": the fallback result (no tldr, no recommendedActions);
\* "E": a result with no themes; "F": the failure result (no generatedAt).
Variants == {"A", "B", "E", "F"}
InsightsOf(v, t) ==
    CASE v = "A" -> [success |-> TRUE, tldr |-> Some(<<"tl1">>),
                     recommendedActions |-> Some(<<"act1">>), themes |-> Some(<<"th1">>),
                     articleCount |-> Some(3), generatedAt |-> Some(t)]
      [] v = "B" -> [success |-> TRUE, tldr |-> None, recommendedActions |-> None,
                     themes |-> Some(<<"th2", "th3">>), articleCount |-> Some(5),
                     generatedAt |-> Some(t)]
      [] v = "E" -> [success |-> TRUE, tldr |-> Some(<<>>), recommendedActions |-> Some(<<>>),
                     themes |-> Some(<<>>), articleCount |-> Some(1),
                     generatedAt |-> Some(t)]
      [] OTHER   -> [success |-> FALSE, tldr |-> None, recommendedActions |-> None,
                     themes |-> Some(<<>>), articleCount |-> None, generatedAt |-> None]

\* The date range POST /api/insights computes from the articles ("A"), or none
\* (the scheduler's saveInsights(insights, category)).
RangeOf(v, t) == IF v = "A" THEN [start |-> Some(t - 1), end |-> Some(t)]
                 ELSE [start |-> None, end |-> None]

\* JSON.stringify(x) into a JSONB column, and the value pg parses back.
JsonStringify(x) == [json |-> x]
JsonParse(j) == j.json

(***************************************************************************)
(* The archive: archiveInsights, saveInsights, getInsights,                *)
(* getTodaysInsights, clearInsights (server/db.js)                         *)
(***************************************************************************)
CollisionDays == 3      \* archiveInsights: INTERVAL '3 days'
RestoreDays == 4        \* getInsights: INTERVAL '4 days'
RecentDays == 3         \* getTodaysInsights: INTERVAL '3 days', windowDays = 3
DefaultRangeDays == 14  \* archiveInsights: Date.now() - 14 days

MaxArchiveRows == 2     \* rows inserted per behaviour
NumSlots == 2           \* requests in flight at once
Slots == 1..NumSlots

\* No artifact counts as empty.
IsEmptyInsightsNever(ins) == FALSE

\* !insights.success || !insights.themes || insights.themes.length === 0
IsEmptyInsights(ins) == ~ins.success \/ ins.themes = None \/ ins.themes = Some(<<>>)

\* WHERE category = $1 AND generated_at > NOW() - INTERVAL 'd days'
RecentRows(rows, cat, t, d) == {r \in rows : r.category = cat /\ r.generated_at > t - d}

\* ... ORDER BY generated_at DESC LIMIT 1: the rows the query may return.
Latest(S) == {r \in S : \A q \in S : q.generated_at <= r.generated_at}

\* The values archiveInsights prepares for the UPDATE and the INSERT.
ArchiveData(ins, drs, dre, t) ==
    [tldr                |-> JsonStringify(OrElse(ins.tldr, <<>>)),
     recommended_actions |-> JsonStringify(OrElse(ins.recommendedActions, <<>>)),
     themes              |-> JsonStringify(OrElse(ins.themes, <<>>)),
     article_count       |-> OrElse(ins.articleCount, 0),
     date_range_start    |-> OrElse(drs, t - DefaultRangeDays),
     date_range_end      |-> OrElse(dre, t),
     generated_at        |-> OrElse(ins.generatedAt, t)]

\* The row found is left as it is ("skip if exists").
ArchiveUpdateSkip(rows, id, d) == rows

\* UPDATE insights_archive SET ... WHERE id = $8
ArchiveUpdate(rows, id, d) ==
    {IF r.id = id THEN d @@ [id |-> r.id, category |-> r.category] ELSE r : r \in rows}

\* INSERT INTO insights_archive ... RETURNING id
ArchiveInsert(rows, id, cat, d) == rows \cup {d @@ [id |-> id, category |-> cat]}

\* The insights object getInsights and getTodaysInsights build from a row.
FromRow(row) ==
    [success |-> TRUE, tldr |-> Some(JsonParse(row.tldr)),
     recommendedActions |-> Some(JsonParse(row.recommended_actions)),
     themes |-> Some(JsonParse(row.themes)), articleCount |-> Some(row.article_count),
     generatedAt |-> Some(row.generated_at)]

\* { ...insights, cachedAt: new Date().toISOString() }
Cached(ins, t) == ins @@ [cachedAt |-> t]

\* isGeneratedRecently(generatedAt, windowDays = 3)
IsGeneratedRecently(g, t) == t - g < RecentDays

IdleCall == [pc |-> "idle", fn |-> "", cat |-> "", ins |-> None, drs |-> None,
             dre |-> None, existing |-> None, ret |-> None]

Idle(p) == call[p].pc = "idle"

\* A new call takes the first free request slot.
Free(p) == Idle(p) /\ \A q \in 1..(p - 1) : ~Idle(q)

\* The call of slot p returns ret (None for null): its promise is resolved.
Returned(p, fn, cat, ret) ==
    call' = [call EXCEPT ![p] =
               [IdleCall EXCEPT !.pc = "returned", !.fn = fn, !.cat = cat, !.ret = ret]]

\* The caller of slot p has taken the return value.
Finish(p) ==
    /\ call[p].pc = "returned"
    /\ call' = [call EXCEPT ![p] = IdleCall]
    /\ UNCHANGED <<archive, archiveSeq, cache, hist>>

Goto(p, pc) == call' = [call EXCEPT ![p].pc = pc]

ArchiveInit ==
    /\ archive = {}
    /\ archiveSeq = 1
    /\ cache = <<>>
    /\ call = [p \in Slots |-> IdleCall]
    /\ hist = [c \in Categories |-> [at |-> -1, prevAt |-> -1]]

\* Rows the calls in flight may still insert.
Pending == Cardinality({p \in Slots : call[p].pc \in {"save_check", "save_write"}})

\* saveInsights whose archiveInsights has no test of category 'all'.
SaveBeginArchiveAll(p, cat, v) ==
    LET ins == InsightsOf(v, now)
        rng == RangeOf(v, now)
    IN  /\ Free(p)
        /\ archiveSeq + Pending <= MaxArchiveRows
        /\ cache' = CacheSet(cache, cat, Cached(ins, now), now)
        /\ call' = [call EXCEPT ![p] =
                      [IdleCall EXCEPT !.fn = "saveInsights", !.cat = cat,
                                       !.ins = Some(ins), !.drs = rng.start,
                                       !.dre = rng.end,
                                       !.pc = IF IsEmptyInsights(ins)
                                              THEN "save_return" ELSE "save_check"]]
        /\ UNCHANGED <<archive, archiveSeq, hist>>

\* saveInsights(insights, category, dateRangeStart, dateRangeEnd): the cache
\* is set, then archiveInsights runs up to its first query.
SaveBegin(p, cat, v) ==
    LET ins == InsightsOf(v, now)
        rng == RangeOf(v, now)
    IN  /\ Free(p)
        /\ archiveSeq + Pending <= MaxArchiveRows
        /\ cache' = CacheSet(cache, cat, Cached(ins, now), now)
        /\ call' = [call EXCEPT ![p] =
                      [IdleCall EXCEPT !.fn = "saveInsights", !.cat = cat,
                                       !.ins = Some(ins), !.drs = rng.start,
                                       !.dre = rng.end,
                                       !.pc = IF cat = "all" \/ IsEmptyInsights(ins)
                                              THEN "save_return" ELSE "save_check"]]
        /\ UNCHANGED <<archive, archiveSeq, hist>>

\* archiveInsights: SELECT id ... generated_at > NOW() - INTERVAL '3 days' ... LIMIT 1
SaveCheck(p) ==
    LET S == Latest(RecentRows(archive, call[p].cat, now, CollisionDays))
    IN  /\ call[p].pc = "save_check"
        /\ IF S = {}
           THEN call' = [call EXCEPT ![p].pc = "save_write", ![p].existing = None]
           ELSE \E r \in S :
                  call' = [call EXCEPT ![p].pc = "save_write", ![p].existing = Some(r.id)]
        /\ UNCHANGED <<archive, archiveSeq, cache, hist>>

\* archiveInsights: the UPDATE of the row found, or the INSERT of a new one.
SaveWrite(p) ==
    LET c == call[p]
        d == ArchiveData(c.ins[1], c.drs, c.dre, now)
    IN  /\ c.pc = "save_write"
        /\ IF c.existing # None
           THEN /\ archive' = ArchiveUpdate(archive, c.existing[1], d)
                /\ UNCHANGED archiveSeq
           ELSE /\ archive' = ArchiveInsert(archive, archiveSeq, c.cat, d)
                /\ archiveSeq' = archiveSeq + 1
        /\ Goto(p, "save_return")
        /\ hist' = [hist EXCEPT ![c.cat] = [at |-> now, prevAt |-> @.at]]
        /\ UNCHANGED cache

\* saveInsights: return insightsCache.get(category)
SaveReturn(p) ==
    LET g == CacheGet(cache, call[p].cat, now)
    IN  /\ call[p].pc = "save_return"
        /\ cache' = g.cache
        /\ Returned(p, "saveInsights", call[p].cat, g.value)
        /\ UNCHANGED <<archive, archiveSeq, hist>>

\* getInsights(category): the cache first, then the archive query.
GetBegin(p, cat) ==
    LET g == CacheGet(cache, cat, now)
    IN  /\ Free(p)
        /\ cache' = g.cache
        /\ IF g.value # None THEN Returned(p, "getInsights", cat, g.value)
           ELSE IF cat # "all"
                THEN call' = [call EXCEPT ![p] =
                                [IdleCall EXCEPT !.fn = "getInsights", !.cat = cat,
                                                 !.pc = "get_query"]]
                ELSE Returned(p, "getInsights", cat, None)
        /\ UNCHANGED <<archive, archiveSeq, hist>>

\* getInsights: SELECT * ... generated_at > NOW() - INTERVAL '4 days' ... LIMIT 1
GetQuery(p) ==
    LET cat == call[p].cat
        S == Latest(RecentRows(archive, cat, now, RestoreDays))
    IN  /\ call[p].pc = "get_query"
        /\ IF S = {}
           THEN /\ Returned(p, "getInsights", cat, None)
                /\ UNCHANGED cache
           ELSE \E r \in S :
                  /\ cache' = CacheSet(cache, cat, Cached(FromRow(r), now), now)
                  /\ Returned(p, "getInsights", cat, Some(FromRow(r)))
        /\ UNCHANGED <<archive, archiveSeq, hist>>

\* getTodaysInsights(category): the cache entry if generated recently, else the query.
TodayBegin(p, cat) ==
    LET g == CacheGet(cache, cat, now)
    IN  /\ Free(p)
        /\ IF cat = "all"
           THEN /\ Returned(p, "getTodaysInsights", cat, None)
                /\ UNCHANGED cache
           ELSE /\ cache' = g.cache
                /\ IF /\ g.value # None
                      /\ g.value[1].generatedAt # None
                      /\ IsGeneratedRecently(g.value[1].generatedAt[1], now)
                   THEN Returned(p, "getTodaysInsights", cat, g.value)
                   ELSE call' = [call EXCEPT ![p] =
                                   [IdleCall EXCEPT !.fn = "getTodaysInsights",
                                                    !.cat = cat, !.pc = "today_query"]]
        /\ UNCHANGED <<archive, archiveSeq, hist>>

\* getTodaysInsights: SELECT * ... generated_at > NOW() - INTERVAL '3 days' ... LIMIT 1
TodayQuery(p) ==
    LET cat == call[p].cat
        S == Latest(RecentRows(archive, cat, now, RecentDays))
    IN  /\ call[p].pc = "today_query"
        /\ IF S = {}
           THEN /\ Returned(p, "getTodaysInsights", cat, None)
                /\ UNCHANGED cache
           ELSE \E r \in S :
                  /\ cache' = CacheSet(cache, cat, Cached(FromRow(r), now), now)
                  /\ Returned(p, "getTodaysInsights", cat, Some(FromRow(r)))
        /\ UNCHANGED <<archive, archiveSeq, hist>>

\* clearInsights(category): one key, or (category = null) the whole cache.
ClearInsights(cat) ==
    /\ cache' = IF cat # None THEN CacheDelete(cache, cat[1]) ELSE CacheClear(cache)
    /\ UNCHANGED <<archive, archiveSeq, call, hist>>

(***************************************************************************)
(* Archive browsing: getArchivedInsights, getArchivedInsightById and       *)
(* searchArchivedInsights (server/db.js). Here a timestamp is a number of  *)
(* hours: generated_at holds the UTC wall clock of the ISO string written. *)
(***************************************************************************)
HoursPerDay == 24
HistoryLimit == 50      \* filters.limit || 50

MaxClock == 100         \* the last hour of a behaviour
ClockStep == 4          \* hours between two observations of the clock

TickHours ==
    /\ clock + ClockStep <= MaxClock
    /\ clock' = clock + ClockStep

\* Hours a zone's wall clock is behind UTC at instant i. New York is on
\* standard time (5) until daylight time starts (4), at 07:00 UTC of day 1 here.
ZoneOffset(zone, i) ==
    IF zone = "UTC" THEN 0
    ELSE IF i < HoursPerDay + 7 THEN 5 ELSE 4

\* timestamp AT TIME ZONE zone: the instant at which the zone's clock showed ts
\* (used for UTC only, whose offset does not change).
InstantAt(ts, zone) == ts + ZoneOffset(zone, ts)

\* timestamptz AT TIME ZONE zone: what the zone's clock shows at instant i.
WallClock(i, zone) == i - ZoneOffset(zone, i)

\* DATE(timestamp)
DateOf(ts) == ts \div HoursPerDay

\* WHERE DATE(generated_at) < DATE(NOW()): the dates of the UTC clock.
HistoricalRowsUtc(rows, t) == {r \in rows : DateOf(r.generated_at) < DateOf(t)}

\* WHERE DATE((generated_at AT TIME ZONE 'UTC') AT TIME ZONE 'America/New_York')
\*       < DATE(NOW() AT TIME ZONE 'America/New_York')
HistoricalRows(rows, t) ==
    {r \in rows :
       DateOf(WallClock(InstantAt(r.generated_at, "UTC"), "America/New_York"))
         < DateOf(WallClock(t, "America/New_York"))}

\* ORDER BY generated_at DESC: the orders the query may return the rows S in.
OrderedDesc(S) ==
    {q \in [1..Cardinality(S) -> S] :
       /\ \A i, j \in 1..Cardinality(S) : i # j => q[i] # q[j]
       /\ \A i, j \in 1..Cardinality(S) : i < j => q[i].generated_at >= q[j].generated_at}

\* LIMIT n
Limited(q, n) == SubSeq(q, 1, Min(n, Len(q)))

\* The object built from a row of a list.
ArchiveEntry(row) ==
    [id |-> row.id, category |-> row.category, tldr |-> row.tldr,
     recommendedActions |-> row.recommended_actions, themes |-> row.themes,
     articleCount |-> row.article_count, dateRangeStart |-> row.date_range_start,
     dateRangeEnd |-> row.date_range_end, generatedAt |-> row.generated_at]

Entries(q) == [i \in 1..Len(q) |-> ArchiveEntry(q[i])]

\* The filters of getArchivedInsights; a missing one adds no condition.
HistoryFilters(t) ==
    [category : {None} \cup {Some(c) : c \in Specific},
     startDate : {None, Some(t - HoursPerDay)},
     endDate : {None, Some(t)},
     limit : {None, Some(1)}]

\* getArchivedInsights(filters)
GetArchivedInsights(p, f) ==
    LET S == {r \in HistoricalRows(archive, clock) :
                /\ f.category # None => r.category = f.category[1]
                /\ f.startDate # None => r.generated_at >= f.startDate[1]
                /\ f.endDate # None => r.generated_at <= f.endDate[1]}
    IN  /\ Free(p)
        /\ \E q \in OrderedDesc(S) :
             Returned(p, "getArchivedInsights", OrElse(f.category, ""),
                      Some(Entries(Limited(q, OrElse(f.limit, HistoryLimit)))))
        /\ UNCHANGED <<archive, archiveSeq, cache, hist>>

\* getArchivedInsightById(id): SELECT * FROM insights_archive WHERE id = $1
GetArchivedInsightById(p, id) ==
    LET S == {r \in archive : r.id = id}
    IN  /\ Free(p)
        /\ IF S = {} THEN Returned(p, "getArchivedInsightById", "", None)
           ELSE \E r \in S :
                  Returned(p, "getArchivedInsightById", "",
                           Some(ArchiveEntry(r) @@ [success |-> TRUE]))
        /\ UNCHANGED <<archive, archiveSeq, cache, hist>>

\* tldr::text ILIKE $1 OR recommended_actions::text ILIKE $1 OR themes::text
\* ILIKE $1, for a keyword that is a whole item or the empty string.
Items(j) == {JsonParse(j)[i] : i \in 1..Len(JsonParse(j))}
Matches(r, keyword) ==
    \/ keyword = ""
    \/ keyword \in Items(r.tldr) \cup Items(r.recommended_actions) \cup Items(r.themes)

Keywords == {"", "tl1", "th2", "none"}

\* searchArchivedInsights(keyword, filters)
SearchArchivedInsights(p, keyword, cat) ==
    LET S == {r \in archive : /\ Matches(r, keyword)
                              /\ cat # None => r.category = cat[1]}
    IN  /\ Free(p)
        /\ \E q \in OrderedDesc(S) :
             Returned(p, "searchArchivedInsights", OrElse(cat, ""),
                      Some(Entries(Limited(q, HistoryLimit))))
        /\ UNCHANGED <<archive, archiveSeq, cache, hist>>

\* archiveInsights(insights, category) with an artifact that is archived, run
\* to its end with no other call in between: the row of the last 3 days is
\* updated, or a row is inserted.
ArchiveInsights(cat, v) ==
    LET ins == InsightsOf(v, clock)
        d == ArchiveData(ins, Some(clock), Some(clock), clock)
        S == Latest(RecentRows(archive, cat, clock, CollisionDays * HoursPerDay))
    IN  /\ cat # "all" /\ ~IsEmptyInsights(ins)
        /\ IF S # {}
           THEN /\ \E r \in S : archive' = ArchiveUpdate(archive, r.id, d)
                /\ UNCHANGED archiveSeq
           ELSE /\ archiveSeq <= MaxArchiveRows
                /\ archive' = ArchiveInsert(archive, archiveSeq, cat, d)
                /\ archiveSeq' = archiveSeq + 1
        /\ UNCHANGED <<cache, call, hist>>

(***************************************************************************)
(* The concurrency limiter: createLimiter (server/rssFetcher.js)           *)
(***************************************************************************)
NumOps == 4         \* operations submitted per behaviour
Width == 2          \* the concurrency of the limiter under test

\* The limiter's closure variables, and per operation (numbered in submission
\* order) its state, the outcome of fn() and the caller's promise.
LimiterState == [active |-> active, queue |-> queue, op |-> op, order |-> order]

SetLimiter(s) ==
    /\ active' = s.active
    /\ queue' = s.queue
    /\ op' = s.op
    /\ order' = s.order

LimiterInit ==
    /\ active = 0
    /\ queue = <<>>
    /\ op = <<>>
    /\ order = <<>>

\* runNext that does not look at active.
RunNextUnbounded(w, s) ==
    IF Len(s.queue) = 0 THEN s
    ELSE [active |-> s.active + 1,
          queue  |-> Tail(s.queue),
          op     |-> [s.op EXCEPT ![Head(s.queue)].st = "running"],
          order  |-> Append(s.order, Head(s.queue))]

\* runNext that takes the entry pushed last (queue.pop()).
RunNextLifo(w, s) ==
    IF Len(s.queue) = 0 \/ s.active >= w THEN s
    ELSE LET last == s.queue[Len(s.queue)]
         IN  [active |-> s.active + 1,
              queue  |-> SubSeq(s.queue, 1, Len(s.queue) - 1),
              op     |-> [s.op EXCEPT ![last].st = "running"],
              order  |-> Append(s.order, last)]

\* runNext: if (queue.length === 0 || active >= concurrency) return;
\* active++; queue.shift(); fn() ...
RunNext(w, s) ==
    IF Len(s.queue) = 0 \/ s.active >= w THEN s
    ELSE [active |-> s.active + 1,
          queue  |-> Tail(s.queue),
          op     |-> [s.op EXCEPT ![Head(s.queue)].st = "running"],
          order  |-> Append(s.order, Head(s.queue))]

\* limit(fn): queue.push({ fn, resolve, reject }); runNext()
Limit(w, s) ==
    LET o == Len(s.op) + 1
    IN  RunNext(w, [s EXCEPT !.queue = Append(@, o),
                             !.op = Append(@, [st |-> "queued", outcome |-> None,
                                               promise |-> None])])

Submit(w) ==
    /\ Len(op) < NumOps
    /\ SetLimiter(Limit(w, LimiterState))

\* The promise fn() returned settles: fulfilled (ok) or rejected, with a value.
Settle(o, ok, val) ==
    /\ o \in DOMAIN op
    /\ op[o].st = "running"
    /\ op' = [op EXCEPT ![o].st = "settled",
                        ![o].outcome = Some([ok |-> ok, value |-> val])]
    /\ UNCHANGED <<active, queue, order>>

\* .then(resolve).catch(reject): the caller's promise takes the outcome.
Deliver(o) ==
    /\ o \in DOMAIN op
    /\ op[o].st = "settled"
    /\ op' = [op EXCEPT ![o].st = "delivered", ![o].promise = op[o].outcome]
    /\ UNCHANGED <<active, queue, order>>

\* A finally handler that gives the slot back and starts nothing.
ReleaseOnly(w, o) ==
    /\ o \in DOMAIN op
    /\ op[o].st = "delivered"
    /\ SetLimiter([LimiterState EXCEPT !.active = @ - 1, !.op[o].st = "done"])

\* A handler chained with then: it runs after a success only.
ReleaseOnSuccess(w, o) ==
    /\ o \in DOMAIN op
    /\ op[o].st = "delivered"
    /\ IF op[o].outcome[1].ok
       THEN SetLimiter(RunNext(w, [LimiterState EXCEPT !.active = @ - 1, !.op[o].st = "done"]))
       ELSE SetLimiter([LimiterState EXCEPT !.op[o].st = "done"])

\* .finally(() => { active--; runNext(); })
Release(w, o) ==
    /\ o \in DOMAIN op
    /\ op[o].st = "delivered"
    /\ SetLimiter(RunNext(w, [LimiterState EXCEPT !.active = @ - 1, !.op[o].st = "done"]))

(***************************************************************************)
(* The daily run: runDailyDigest (server/scheduler.js), appendDigest and   *)
(* readRecentDigests (server/archiver.js)                                  *)
(***************************************************************************)
MaxRuns == 2        \* runs per behaviour
MaxArticles == 2    \* articles the 24-hour query returns
StartWeekday == 4   \* day 0 of the clock is a Thursday
Friday == 5         \* today.getDay() === 5

\* new Date().getDay()
Weekday(t) == (t + StartWeekday) % 7

Statuses == {"sent", "failed"}

\* The digest of the empty branch of runDailyDigest.
EmptyDigest(t) ==
    [date |-> t, top_insights |-> <<>>, competitive_signals |-> <<>>,
     worth_reading |-> <<>>, nothing_notable |-> TRUE, article_count |-> 0,
     source_count |-> 0]

\* What generateInsights(articles) returns for n articles of sc sources:
\* a digest with insights, or (nn) one of its nothing_notable results.
GeneratedDigest(n, sc, nn, t) ==
    [date |-> t, top_insights |-> IF nn THEN <<>> ELSE <<"insight">>,
     competitive_signals |-> <<>>, worth_reading |-> <<>>, nothing_notable |-> nn,
     article_count |-> n, source_count |-> sc]

\* The articles of a 24-hour window: n rows of sc distinct sources.
WindowArticles(n, sc) ==
    [i \in 1..n |-> [source |-> "source" \o ToString(Min(i, sc)), type |-> "article"]]

\* new Set(articles.map(a => a.source)).size
SourceCount(as) == Cardinality({as[i].source : i \in 1..Len(as)})

\* The nothing_notable digest generateInsights returns without an answer.
NothingNotable(n, sc, t) ==
    [date |-> t, top_insights |-> <<>>, competitive_signals |-> <<>>,
     worth_reading |-> <<>>, nothing_notable |-> TRUE, article_count |-> n,
     source_count |-> sc]

\* What can keep generateInsights from an answer: no ANTHROPIC_API_KEY, the
\* timeout winning the race, the API call rejecting, a message without text,
\* a text JSON.parse rejects.
InsightsFailures == {"no key", "timeout", "api error", "no content", "unparsable"}

\* An answer of the model, parsed: any field may be missing, and the counts
\* are whatever the model wrote. An item of a list stands for its url.
Answer(nn) ==
    [date |-> None, top_insights |-> IF nn THEN None ELSE Some(<<"insight">>),
     competitive_signals |-> None, worth_reading |-> None,
     nothing_notable |-> IF nn THEN Some(TRUE) ELSE None,
     article_count |-> Some(0), source_count |-> None]

\* filter(item => !isDuplicate(item.url, ...)), by url: the items of q not
\* among used, each once when a kept item is marked used.
RECURSIVE Deduplicated(_, _, _)
Deduplicated(q, used, mark) ==
    IF q = <<>> THEN <<>>
    ELSE IF Head(q) \in used THEN Deduplicated(Tail(q), used, mark)
    ELSE <<Head(q)>> \o Deduplicated(Tail(q), IF mark THEN used \cup {Head(q)} ELSE used, mark)

Range(q) == {q[i] : i \in 1..Len(q)}

\* generateInsights that keeps the counts the model wrote.
GenerateInsightsTrusting(as, why, json, t) ==
    IF Len(as) = 0 THEN NothingNotable(0, 0, t)
    ELSE IF why # "" THEN NothingNotable(Len(as), SourceCount(as), t)
    ELSE [date |-> OrElse(json.date, t),
          top_insights |-> OrElse(json.top_insights, <<>>),
          competitive_signals |-> OrElse(json.competitive_signals, <<>>),
          worth_reading |-> OrElse(json.worth_reading, <<>>),
          nothing_notable |-> OrElse(json.nothing_notable, FALSE),
          article_count |-> OrElse(json.article_count, 0),
          source_count |-> OrElse(json.source_count, 0)]

\* generateInsights whose branch for a missing key returns the counts of the
\* branch for no articles.
GenerateInsightsKeylessZero(as, why, json, t) ==
    IF Len(as) = 0 \/ why = "no key" THEN NothingNotable(0, 0, t)
    ELSE GenerateInsightsTrusting(as, why, IF why = "" THEN json ELSE Answer(TRUE), t)

\* generateInsights(articles): why is what kept it from an answer ("" when
\* nothing did), json the parsed answer.
GenerateInsights(as, why, json, t) ==
    IF Len(as) = 0 THEN NothingNotable(0, 0, t)
    ELSE IF why # "" THEN NothingNotable(Len(as), SourceCount(as), t)
    ELSE LET top == OrElse(json.top_insights, <<>>)
             signals == Deduplicated(OrElse(json.competitive_signals, <<>>), Range(top), TRUE)
             links == Deduplicated(OrElse(json.worth_reading, <<>>),
                                   Range(top) \cup Range(signals), FALSE)
         IN  [date |-> OrElse(json.date, t),
              top_insights |-> top,
              competitive_signals |-> signals,
              worth_reading |-> links,
              nothing_notable |-> OrElse(json.nothing_notable, FALSE),
              article_count |-> Len(as),
              source_count |-> SourceCount(as)]

\* readRecentDigests(count): the last lines of the file, newest first, parsed.
Reverse(q) == [i \in 1..Len(q) |-> q[Len(q) + 1 - i]]
ReadRecentDigests(lines, count) ==
    LET last == SubSeq(lines, Max(1, Len(lines) - count + 1), Len(lines))
    IN  [i \in 1..Len(last) |-> JsonParse(Reverse(last)[i])]

RecentCount == 5    \* readRecentDigests(5)

IdleRun == [pc |-> "idle", count |-> 0, n |-> 0, sc |-> 0, digest |-> None,
            weekly |-> None, trace |-> <<>>]

RunInit ==
    /\ run = IdleRun
    /\ digestState = [lastDigestRun |-> None, articleCount |-> 0, emailStatus |-> None,
                      nextScheduledRun |-> None, lastError |-> None]
    /\ jsonl = <<>>

Event(ev, digest, status) == [ev |-> ev, digest |-> digest, status |-> status]

\* runDailyDigest is called (cron, startup): up to the call of fetchAllFeeds.
RunStart ==
    /\ run.pc = "idle"
    /\ run.count < MaxRuns
    /\ run' = [IdleRun EXCEPT !.pc = "fetch", !.count = run.count + 1]
    /\ UNCHANGED <<digestState, jsonl>>

\* await fetchAllFeeds() returns; its value is not used.
RunFetched ==
    /\ run.pc = "fetch"
    /\ run' = [run EXCEPT !.pc = "query"]
    /\ UNCHANGED <<digestState, jsonl>>

\* await fetchAllFeeds() rejects (config.sources is read unguarded): the catch
\* block records the message and the run is over.
RunFetchThrew ==
    /\ run.pc = "fetch"
    /\ run' = [run EXCEPT !.pc = "idle",
                          !.trace = Append(@, Event("fetch", None, "threw"))]
    /\ digestState' = [digestState EXCEPT !.lastError = Some("fetchAllFeeds")]
    /\ UNCHANGED jsonl

\* getArticles without its catch: the failed query rejects and the catch block
\* of the run records it.
RunQueryFailedUncaught ==
    /\ run.pc = "query"
    /\ run' = [run EXCEPT !.pc = "idle",
                          !.trace = Append(@, Event("query", None, "failed"))]
    /\ digestState' = [digestState EXCEPT !.lastError = Some("getArticles")]
    /\ UNCHANGED jsonl

\* getArticles: the query fails; its own catch logs the error and returns [].
RunQueryFailed ==
    /\ run.pc = "query"
    /\ run' = [run EXCEPT !.pc = "empty", !.n = 0, !.sc = 0,
                          !.trace = Append(@, Event("query", None, "failed"))]
    /\ digestState' = [digestState EXCEPT !.articleCount = 0]
    /\ UNCHANGED jsonl

\* getArticles({ startDate }) returns n articles of sc sources.
RunQueried(n, sc) ==
    /\ run.pc = "query"
    /\ run' = [run EXCEPT !.pc = IF n = 0 THEN "empty" ELSE "generate", !.n = n, !.sc = sc]
    /\ digestState' = [digestState EXCEPT !.articleCount = n]
    /\ UNCHANGED jsonl

\* articles.length === 0: sendDigestEmail(emptyDigest), state, return.
RunEmptySent(status) ==
    /\ run.pc = "empty"
    /\ run' = [run EXCEPT !.pc = "idle", !.digest = Some(EmptyDigest(now)),
                          !.trace = Append(@, Event("deliver", EmptyDigest(now), status))]
    /\ digestState' = [digestState EXCEPT !.emailStatus = Some(status),
                                          !.lastDigestRun = Some(now)]
    /\ UNCHANGED jsonl

\* generateInsights(articles), then the Friday check.
RunGenerated(nn) ==
    LET d == GenerateInsights(WindowArticles(run.n, run.sc), "", Answer(nn), now)
    IN  /\ run.pc = "generate"
        /\ run' = [run EXCEPT !.pc = IF Weekday(now) = Friday THEN "weekly" ELSE "send",
                              !.digest = Some(d),
                              !.trace = Append(@, Event("generate", d, ""))]
        /\ UNCHANGED <<digestState, jsonl>>

\* generateInsights: the key is missing, or the API call or the parse of its
\* answer fails and a catch returns the nothing_notable digest of the articles.
RunGenerateFailedFor(why) ==
    LET d == GenerateInsights(WindowArticles(run.n, run.sc), why, None, now)
    IN  /\ run.pc = "generate"
        /\ run' = [run EXCEPT !.pc = IF Weekday(now) = Friday THEN "weekly" ELSE "send",
                              !.digest = Some(d),
                              !.trace = Append(@, Event("generate", d, "failed"))]
        /\ UNCHANGED <<digestState, jsonl>>

RunGenerateFailed == \E why \in InsightsFailures : RunGenerateFailedFor(why)

\* readRecentDigests(5) and generateWeeklySummary: no bullets for no digests,
\* else the bullets of the model or [] (no key, a failure).
RunWeekly(bullets) ==
    LET recent == ReadRecentDigests(jsonl, RecentCount)
    IN  /\ run.pc = "weekly"
        /\ run' = [run EXCEPT !.pc = "send",
                              !.weekly = Some(IF Len(recent) = 0 THEN <<>> ELSE bullets)]
        /\ UNCHANGED <<digestState, jsonl>>

\* A run that stops when the email was not sent.
RunDeliveredStopOnFailure(status) ==
    /\ run.pc = "send"
    /\ run' = [run EXCEPT !.pc = IF status = "sent" THEN "append" ELSE "idle",
                          !.trace = Append(@, Event("deliver", run.digest[1], status))]
    /\ digestState' = [digestState EXCEPT !.emailStatus = Some(status)]
    /\ UNCHANGED jsonl

\* sendDigestEmail(digest, weeklyBullets) returns { status }.
RunDelivered(status) ==
    /\ run.pc = "send"
    /\ run' = [run EXCEPT !.pc = "append",
                          !.trace = Append(@, Event("deliver", run.digest[1], status))]
    /\ digestState' = [digestState EXCEPT !.emailStatus = Some(status)]
    /\ UNCHANGED jsonl

\* A run without the catch block: the failure of appendDigest rejects the run.
RunAppendedUncaught(ok) ==
    /\ run.pc = "append"
    /\ run' = [run EXCEPT !.pc = IF ok THEN "idle" ELSE "rejected",
                          !.trace = Append(@, Event("append", run.digest[1],
                                                    IF ok THEN "ok" ELSE "threw"))]
    /\ IF ok
       THEN /\ jsonl' = Append(jsonl, JsonStringify(run.digest[1]))
            /\ digestState' = [digestState EXCEPT !.lastDigestRun = Some(now),
                                                  !.lastError = None]
       ELSE UNCHANGED <<jsonl, digestState>>

\* appendDigest(digest): the line is appended and the state updated, or the
\* file system fails and the catch block records the error.
RunAppended(ok) ==
    /\ run.pc = "append"
    /\ run' = [run EXCEPT !.pc = "idle",
                          !.trace = Append(@, Event("append", run.digest[1],
                                                    IF ok THEN "ok" ELSE "threw"))]
    /\ IF ok
       THEN /\ jsonl' = Append(jsonl, JsonStringify(run.digest[1]))
            /\ digestState' = [digestState EXCEPT !.lastDigestRun = Some(now),
                                                  !.lastError = None]
       ELSE /\ jsonl' = jsonl
            /\ digestState' = [digestState EXCEPT !.lastError = Some("appendDigest")]

(***************************************************************************)
(* The fetch phase: fetchRSS, fetchAllFeeds (server/rssFetcher.js) and     *)
(* scrapeNewsroom (server/newsroomScraper.js)                              *)
(***************************************************************************)
NumFeeds == 2           \* config.sources.length
MaxItems == 1           \* items a source document holds
RssConcurrency == 5     \* createLimiter(5)
MaxRetries == 3         \* fetchRSS(source, maxRetries = 3)
NumScrapers == 3        \* scrapeRocketPressReleases, scrapeBlendNewsroom, scrapeICEMortgageTech

Feeds == 1..NumFeeds
Scrapers == 1..NumScrapers

\* The link of item i of RSS source (kind "f") or scraper (kind "s") number s.
ItemLink(kind, s, i) == kind \o ToString(s) \o "-" \o ToString(i)
FetchLinks == {ItemLink(k, s, i) : k \in {"f", "s"}, s \in Feeds \cup Scrapers, i \in 1..MaxItems}

\* The article fetchRSS builds from item i of source s.
FeedItem(s, i, t) ==
    [title |-> Some("t1"), link |-> Some(ItemLink("f", s, i)), pubDate |-> Some(t),
     source |-> Some(ItemLink("f", s, 0)), category |-> Some("mortgage"),
     type |-> "article", summary |-> Some(Text("sum1", 300)),
     originalContent |-> Some(Text("body1", 500)), imageUrl |-> None]

\* The article a parser and scrapeNewsroom build from entry i of scraper s.
ScrapedItem(s, i, t) ==
    [title |-> Some("t2"), link |-> Some(ItemLink("s", s, i)), pubDate |-> Some(t),
     summary |-> Some(EmptyText), originalContent |-> Some(EmptyText), imageUrl |-> None,
     source |-> Some(ItemLink("s", s, 0)), category |-> Some("competitor-intel")]

\* The elements of q at the indices other than bad.
Except(q, bad) == SelectSeq(q, LAMBDA x : bad = 0 \/ x # q[bad])

\* rssResults.flat(), [...a, ...b, ...c]
RECURSIVE Flat(_)
Flat(qs) == IF qs = <<>> THEN <<>> ELSE Head(qs) \o Flat(Tail(qs))

\* The locals of a fetchRSS call: the attempt in progress, the delays slept
\* so far (ms), whether the attempts were used up, the articles returned.
IdleFeed == [attempt |-> 1, waited |-> <<>>, failed |-> FALSE, items |-> <<>>]
IdleFetch == [pc |-> "idle", rss |-> <<>>, result |-> <<>>, threw |-> FALSE]

FetchInit ==
    /\ feed = [s \in Feeds |-> IdleFeed]
    /\ scraper = [j \in Scrapers |-> None]
    /\ fetch = IdleFetch

\* No reaction of a settled promise is waiting to run. Promise reactions are
\* microtasks: they all run before the next timer or I/O callback.
Quiet == \A o \in DOMAIN op : op[o].st \notin {"settled", "delivered"}

RECURSIVE LimitAll(_, _, _)
LimitAll(w, s, n) == IF n = 0 THEN s ELSE Limit(w, LimitAll(w, s, n - 1))

\* fetchAllFeeds up to its first await: a new limiter, and limit(() =>
\* fetchRSS(source)) for every source, in the order of config.sources.
FetchBegin ==
    /\ run.pc = "fetch"
    /\ fetch.pc = "idle"
    /\ fetch' = [fetch EXCEPT !.pc = "rss"]
    /\ SetLimiter(LimitAll(RssConcurrency,
                           [active |-> 0, queue |-> <<>>, op |-> <<>>, order |-> <<>>],
                           NumFeeds))
    /\ UNCHANGED <<feed, scraper, articles, articleSeq, upserts>>

\* fetchRSS: parser.parseURL succeeded with k items; each is saved and pushed,
\* except item bad (if any), whose processing threw; the articles are returned.
FeedParsed(s, k, bad) ==
    LET all == [i \in 1..k |-> FeedItem(s, i, now)]
        kept == Except(all, bad)
    IN  /\ fetch.pc = "rss"
        /\ Quiet
        /\ bad <= k
        /\ s \in DOMAIN op /\ op[s].st = "running"
        /\ feed' = [feed EXCEPT ![s] = [IdleFeed EXCEPT !.items = kept]]
        /\ SetStore(SaveAll(StoreState, kept, now))
        /\ Settle(s, TRUE, kept)
        /\ UNCHANGED <<scraper, fetch>>

BaseDelayMs == 1000     \* Math.pow(2, attempt - 1) * 1000

\* A delay that does not grow.
RetryDelayFixed(attempt) == BaseDelayMs

\* const delay = Math.pow(2, attempt - 1) * 1000
RetryDelay(attempt) == (2 ^ (attempt - 1)) * BaseDelayMs

\* fetchRSS that throws the last error when the attempts are used up.
FeedAttemptFailedRethrow(s) ==
    /\ fetch.pc = "rss"
    /\ Quiet
    /\ IF feed[s].attempt < MaxRetries
       THEN /\ s \in DOMAIN op /\ op[s].st = "running"
            /\ feed' = [feed EXCEPT ![s].attempt = @ + 1,
                                    ![s].waited = Append(@, RetryDelay(feed[s].attempt))]
            /\ UNCHANGED limiterVars
       ELSE /\ feed' = [feed EXCEPT ![s].failed = TRUE]
            /\ Settle(s, FALSE, <<>>)
    /\ UNCHANGED <<scraper, fetch, articles, articleSeq, upserts>>

\* fetchRSS: parser.parseURL threw; sleep and try again, or after the last
\* attempt return [].
FeedAttemptFailed(s) ==
    /\ fetch.pc = "rss"
    /\ Quiet
    /\ IF feed[s].attempt < MaxRetries
       THEN /\ s \in DOMAIN op /\ op[s].st = "running"
            /\ feed' = [feed EXCEPT ![s].attempt = @ + 1,
                                    ![s].waited = Append(@, RetryDelay(feed[s].attempt))]
            /\ UNCHANGED limiterVars
       ELSE /\ feed' = [feed EXCEPT ![s].failed = TRUE]
            /\ Settle(s, TRUE, <<>>)
    /\ UNCHANGED <<scraper, fetch, articles, articleSeq, upserts>>

Rejected == {s \in DOMAIN op : op[s].promise # None /\ ~op[s].promise[1].ok}
Fulfilled == {s \in DOMAIN op : op[s].promise # None /\ op[s].promise[1].ok}

\* await Promise.all(config.sources.map(...)): rejected with the first
\* rejection, or fulfilled with every value in the order of the sources; then
\* the three scrapers are called.
RssJoined ==
    /\ fetch.pc = "rss"
    /\ IF Rejected # {}
       THEN fetch' = [fetch EXCEPT !.pc = "settled", !.threw = TRUE]
       ELSE /\ Fulfilled = Feeds
            /\ fetch' = [fetch EXCEPT !.pc = "scrape",
                                      !.rss = [s \in Feeds |-> op[s].promise[1].value]]
    /\ UNCHANGED <<feed, scraper, limiterVars, articles, articleSeq, upserts>>

\* scrapeNewsroom: the page was parsed into k articles, or (failed) the
\* response was not ok or something threw, and [] is returned.
Scraped(j, k, failed) ==
    /\ fetch.pc = "scrape"
    /\ Quiet
    /\ scraper[j] = None
    /\ scraper' = [scraper EXCEPT ![j] =
                     Some([failed |-> failed,
                           items |-> IF failed THEN <<>>
                                     ELSE [i \in 1..k |-> ScrapedItem(j, i, now)]])]
    /\ UNCHANGED <<feed, fetch, limiterVars, articles, articleSeq, upserts>>

\* The scrapers have returned: every scraped article is saved (the save of
\* article bad, if any, throws and is logged), and fetchAllFeeds returns.
FetchReturned(bad) ==
    LET scraperArticles == Flat([j \in Scrapers |-> scraper[j][1].items])
    IN  /\ fetch.pc = "scrape"
        /\ Quiet
        /\ \A j \in Scrapers : scraper[j] # None
        /\ bad <= Len(scraperArticles)
        /\ SetStore(SaveAll(StoreState, Except(scraperArticles, bad), now))
        /\ fetch' = [fetch EXCEPT !.pc = "settled",
                                  !.result = Flat(fetch.rss) \o scraperArticles]
        /\ UNCHANGED <<feed, scraper, limiterVars>>

\* runDailyDigest: await fetchAllFeeds() returns, or throws into the catch block.
RunFetchSettled ==
    /\ run.pc = "fetch"
    /\ fetch.pc = "settled"
    /\ fetch' = [fetch EXCEPT !.pc = "done"]
    /\ IF fetch.threw
       THEN /\ run' = [run EXCEPT !.pc = "idle"]
            /\ digestState' = [digestState EXCEPT !.lastError = Some("fetchAllFeeds")]
       ELSE /\ run' = [run EXCEPT !.pc = "query"]
            /\ UNCHANGED digestState
    /\ UNCHANGED <<jsonl, feed, scraper>>

(***************************************************************************)
(* Calls of fetchAllFeeds that overlap: the daily run (scheduler.js) and   *)
(* POST /api/refresh (index.js) each await fetchAllFeeds(), and nothing    *)
(* keeps one from starting while the other is in progress. Each call is    *)
(* followed by counts: its limiter's active and queue.length, and the      *)
(* scrapers that have not returned.                                        *)
(***************************************************************************)
NumSources == 6         \* config.sources.length

Callers == {"scheduled", "manual"}

IdlePhase == [pc |-> "idle", active |-> 0, queue |-> 0, scraping |-> {}]

PhaseInit == phase = [p \in Callers |-> IdlePhase]

\* fetchAllFeeds up to its first await: const limit = createLimiter(5), and
\* limit(() => fetchRSS(source)) for every source: runNext starts an
\* operation while active < concurrency, the others stay in the queue.
PhaseBegin(p) ==
    /\ phase[p].pc = "idle"
    /\ phase' = [phase EXCEPT ![p] =
                   [pc |-> "rss", active |-> Min(RssConcurrency, NumSources),
                    queue |-> NumSources - Min(RssConcurrency, NumSources),
                    scraping |-> {}]]

\* A fetchRSS call returns: finally { active--; runNext() } starts the next
\* operation of the queue, if any.
PhaseSourceSettled(p) ==
    /\ phase[p].pc = "rss"
    /\ phase[p].active > 0
    /\ phase' = [phase EXCEPT ![p] =
                   IF phase[p].queue > 0
                   THEN [@ EXCEPT !.queue = @ - 1]
                   ELSE [@ EXCEPT !.active = @ - 1]]

\* await Promise.all(config.sources.map(...)) is fulfilled; the three
\* scrapers are called, in one Promise.all, without the limiter.
PhaseRssJoined(p) ==
    /\ phase[p].pc = "rss"
    /\ phase[p].active = 0 /\ phase[p].queue = 0
    /\ phase' = [phase EXCEPT ![p].pc = "scrape", ![p].scraping = Scrapers]

\* A scraper returns.
PhaseScraped(p, j) ==
    /\ phase[p].pc = "scrape"
    /\ j \in phase[p].scraping
    /\ phase' = [phase EXCEPT ![p].scraping = @ \ {j}]

\* The three scrapers have returned; the articles are saved and
\* fetchAllFeeds returns.
PhaseReturned(p) ==
    /\ phase[p].pc = "scrape"
    /\ phase[p].scraping = {}
    /\ phase' = [phase EXCEPT ![p] = IdlePhase]

(***************************************************************************)
(* The scrape adapters: scrapeNewsroom and the parsers of                  *)
(* scrapeRocketPressReleases, scrapeBlendNewsroom and scrapeICEMortgageTech *)
(* (server/newsroomScraper.js). A page is the sequence of the elements its *)
(* selector matches; a title is its first MaxTitleLength characters        *)
(* (head), the characters after them (rest) and its length.                *)
(***************************************************************************)
MinTitleLength == 10    \* title.length < 10
MaxTitleLength == 200   \* title.substring(0, 200)
MaxElements == 3        \* elements a page holds
MaxWanted == 2          \* the largest maxItems asked for

Adapters == {"rocket", "blend", "ice"}

Title(head, rest, len) == [head |-> head, rest |-> rest, len |-> len]
NoTitle == Title("", "", 0)
ShortTitle == Title("short", "", MinTitleLength - 1)
TitleA == Title("A", "", MinTitleLength)
TitleB == Title("B", "", MinTitleLength + 1)
LongTitleX == Title("L", "x", MaxTitleLength + 1)
LongTitleY == Title("L", "y", MaxTitleLength + 1)

\* title.substring(0, 200)
Truncated(t) == IF t.len > MaxTitleLength THEN Title(t.head, "", MaxTitleLength) ELSE t

\* An element: the title text found for it, its href attribute (None when
\* the element has no link), the date text found near it ("" when none, "bad"
\* when Date cannot parse it), and for a row of the ICE table whether it has
\* two cells and mentions mortgage.
Element(title, href, date, row) == [title |-> title, href |-> href, date |-> date, row |-> row]

\* href.startsWith('http')
AbsoluteHrefs == {"https://rocketcompanies.com/press-release/2", "https://www.businesswire.com/1",
                  "https://www.businesswire.com/2", "https://www.prnewswire.com/3",
                  "https://ir.theice.com/2"}
\* href.includes('businesswire.com') || href.includes('prnewswire.com') || ...
NewsHrefs == {"https://www.businesswire.com/1", "https://www.businesswire.com/2",
              "https://www.prnewswire.com/3"}

\* What $('a[href*="/press-release/"]') can match.
RocketElements ==
    {Element(TitleA, Some("/press-release/1"), "", TRUE),
     Element(TitleA, Some("https://rocketcompanies.com/press-release/2"), "ok", TRUE),
     Element(TitleB, Some("/press-release/1"), "ok", TRUE),
     Element(TitleB, Some("/press-release/3"), "bad", TRUE),
     Element(ShortTitle, Some("/press-release/4"), "", TRUE),
     Element(NoTitle, Some("/press-release/5"), "", TRUE)}

\* What $('a[href]') can match.
BlendElements ==
    {Element(TitleA, Some("https://www.businesswire.com/1"), "", TRUE),
     Element(TitleA, Some("https://www.businesswire.com/2"), "", TRUE),
     Element(TitleB, Some("https://www.businesswire.com/1"), "", TRUE),
     Element(LongTitleX, Some("https://www.businesswire.com/2"), "", TRUE),
     Element(LongTitleY, Some("https://www.prnewswire.com/3"), "", TRUE),
     Element(TitleB, Some("/about"), "", TRUE),
     Element(ShortTitle, Some("https://www.prnewswire.com/3"), "", TRUE),
     Element(TitleB, Some(""), "", TRUE)}

\* What $('table tr, .press-release-row, [class*="press"]') can match.
IceElements ==
    {Element(TitleA, Some("/media/1"), "ok", TRUE),
     Element(TitleA, None, "", TRUE),
     Element(TitleB, Some("https://ir.theice.com/2"), "bad", TRUE),
     Element(TitleB, Some("/media/3"), "", TRUE),
     Element(ShortTitle, Some("/media/4"), "ok", TRUE),
     Element(TitleB, Some("/media/5"), "ok", FALSE)}

ElementsOf(adapter) ==
    CASE adapter = "rocket" -> RocketElements
      [] adapter = "blend" -> BlendElements
      [] adapter = "ice" -> IceElements

Pages(adapter) == UNION {[1..n -> ElementsOf(adapter)] : n \in 0..MaxElements}

\* The day new Date(dateText) gives for a date text it can parse.
ParsedDate == 0

\* dateText ? new Date(dateText).toISOString() : new Date().toISOString()
PubDate(date, t) == IF date = "" THEN t ELSE ParsedDate

ParsedArticle(title, link, pubDate) ==
    [title |-> title, link |-> link, pubDate |-> pubDate,
     summary |-> "", originalContent |-> "", imageUrl |-> None]

\* The locals of a parser: articles, whether the callback of each() has
\* returned false, whether it has thrown.
Parsing(as, stopped, threw) == [articles |-> as, stopped |-> stopped, threw |-> threw]

\* No check of the titles kept so far.
TitleSeenNever(as, title) == FALSE

\* articles.some(a => a.title === title)
TitleSeen(as, title) == \E i \in 1..Len(as) : as[i].title = title

LinkSeen(as, link) == \E i \in 1..Len(as) : as[i].link = link

\* The callback of each() in scrapeRocketPressReleases.
RocketEach(acc, el, max, t) ==
    IF acc.stopped \/ acc.threw THEN acc
    ELSE IF Len(acc.articles) >= max THEN [acc EXCEPT !.stopped = TRUE]
    ELSE IF el.title.len = 0 \/ el.href \in {None, Some("")} \/ el.title.len < MinTitleLength THEN acc
    ELSE IF TitleSeen(acc.articles, el.title) THEN acc
    ELSE IF el.date = "bad" THEN [acc EXCEPT !.threw = TRUE]
    ELSE [acc EXCEPT !.articles =
            Append(@, ParsedArticle(el.title,
                                    IF el.href[1] \in AbsoluteHrefs THEN el.href[1]
                                    ELSE "https://rocketcompanies.com" \o el.href[1],
                                    PubDate(el.date, t)))]

\* The callback of each() in scrapeBlendNewsroom.
BlendEach(acc, el, max, t) ==
    LET href == OrElse(el.href, "")
        title == Truncated(el.title)
    IN  IF acc.stopped \/ acc.threw THEN acc
        ELSE IF Len(acc.articles) >= max THEN [acc EXCEPT !.stopped = TRUE]
        ELSE IF href \notin NewsHrefs THEN acc
        ELSE IF el.title.len = 0 \/ el.title.len < MinTitleLength THEN acc
        ELSE IF TitleSeen(acc.articles, title) \/ LinkSeen(acc.articles, href) THEN acc
        ELSE [acc EXCEPT !.articles = Append(@, ParsedArticle(title, href, t))]

\* The callback of each() in scrapeICEMortgageTech.
IceEach(acc, el, max, t) ==
    IF acc.stopped \/ acc.threw THEN acc
    ELSE IF Len(acc.articles) >= max THEN [acc EXCEPT !.stopped = TRUE]
    ELSE IF ~el.row THEN acc
    ELSE IF el.title.len = 0 \/ el.title.len < MinTitleLength THEN acc
    ELSE IF el.date = "bad" THEN [acc EXCEPT !.threw = TRUE]
    ELSE IF TitleSeen(acc.articles, el.title) THEN acc
    ELSE [acc EXCEPT !.articles =
            Append(@, ParsedArticle(el.title,
                                    IF el.href = None \/ el.href = Some("") THEN ""
                                    ELSE IF el.href[1] \in AbsoluteHrefs THEN el.href[1]
                                    ELSE "https://www.ice.com" \o el.href[1],
                                    PubDate(el.date, t)))]

Each(adapter, acc, el, max, t) ==
    CASE adapter = "rocket" -> RocketEach(acc, el, max, t)
      [] adapter = "blend" -> BlendEach(acc, el, max, t)
      [] adapter = "ice" -> IceEach(acc, el, max, t)

\* parser($, maxItems): each() over the first n elements of the page.
RECURSIVE Parser(_, _, _, _, _)
Parser(adapter, page, n, max, t) ==
    IF n = 0 THEN Parsing(<<>>, FALSE, FALSE)
    ELSE Each(adapter, Parser(adapter, page, n - 1, max, t), page[n], max, t)

SourceName(adapter) ==
    CASE adapter = "rocket" -> "Rocket Companies Newsroom"
      [] adapter = "blend" -> "Blend Newsroom"
      [] adapter = "ice" -> "ICE Mortgage Technology"

\* scrapeNewsroom once the response has arrived: [] when it is not ok or
\* when the parser throws, else the articles with source and category.
ScrapeNewsroom(adapter, ok, page, max, t) ==
    LET r == Parser(adapter, page, Len(page), max, t)
    IN  IF ~ok \/ r.threw THEN <<>>
        ELSE [i \in 1..Len(r.articles) |->
                [title |-> r.articles[i].title, link |-> r.articles[i].link,
                 pubDate |-> r.articles[i].pubDate, summary |-> "",
                 originalContent |-> "", imageUrl |-> None,
                 source |-> SourceName(adapter), category |-> "competitor-intel"]]

IdleScrape == [pc |-> "idle", adapter |-> "", max |-> 0, ok |-> FALSE, page |-> <<>>, out |-> <<>>]

ScrapeInit == scrape = IdleScrape

\* scrapeRocketPressReleases(max), scrapeBlendNewsroom(max) or
\* scrapeICEMortgageTech(max) is called: await fetch(url, ...).
ScrapeCalled(adapter, max) ==
    /\ scrape.pc = "idle"
    /\ scrape' = [IdleScrape EXCEPT !.pc = "fetch", !.adapter = adapter, !.max = max]

\* fetch throws (network error, timeout): the catch block returns [].
ScrapeFetchThrew ==
    /\ scrape.pc = "fetch"
    /\ scrape' = [scrape EXCEPT !.pc = "returned", !.out = <<>>]

\* The response arrives, ok or not, with a page; the rest of scrapeNewsroom.
ScrapeResponded(ok, page) ==
    /\ scrape.pc = "fetch"
    /\ scrape' = [scrape EXCEPT !.pc = "returned", !.ok = ok, !.page = page,
                                !.out = ScrapeNewsroom(scrape.adapter, ok, page, scrape.max, now)]

(***************************************************************************)
(* Delivery: sendDigestEmail (server/emailSender.js). The digest has the   *)
(* shape generateInsights documents, for which buildDigestHtml is total.   *)
(***************************************************************************)
SendAttempts == 2       \* for (let attempt = 1; attempt <= 2; attempt++)
RetryWaitMs == 60000    \* setTimeout(r, 60000)
MaxSends == 2           \* calls of sendDigestEmail followed

ProviderErrors == {"rate limited", "timeout"}
ProviderIds == {None, Some("id1")}

\* `Weekly Review + Signal - ${dateStr}` or `Signal - ${dateStr}`
Subject(weekly, t) == [weekly |-> weekly, date |-> t]

IdleMail == [pc |-> "idle", calls |-> 0, attempt |-> 0, subject |-> None,
             tried |-> <<>>, waited |-> <<>>, ret |-> None]

MailInit == mail = IdleMail

\* sendDigestEmail is called (again): without DIGEST_EMAIL or RESEND_API_KEY
\* it returns failed; else it builds subject and html and makes the first
\* call of emails.send.
SendCalled(hasTo, hasKey, weekly) ==
    /\ mail.pc \in {"idle", "returned"}
    /\ mail.calls < MaxSends
    /\ mail' = IF ~hasTo
               THEN [IdleMail EXCEPT !.pc = "returned", !.calls = mail.calls + 1,
                       !.ret = Some([status |-> "failed", id |-> None,
                                     error |-> Some("DIGEST_EMAIL not configured")])]
               ELSE IF ~hasKey
               THEN [IdleMail EXCEPT !.pc = "returned", !.calls = mail.calls + 1,
                       !.ret = Some([status |-> "failed", id |-> None,
                                     error |-> Some("RESEND_API_KEY not configured")])]
               ELSE [IdleMail EXCEPT !.pc = "send", !.calls = mail.calls + 1,
                       !.attempt = 1, !.subject = Some(Subject(weekly, now))]

\* emails.send resolves, with result.data.id or without: status sent.
SendResolved(id) ==
    /\ mail.pc = "send"
    /\ mail' = [mail EXCEPT !.pc = "returned", !.tried = Append(@, "resolved"),
                            !.ret = Some([status |-> "sent", id |-> id, error |-> None])]

\* emails.send rejects and the first failure is returned.
SendRejectedNoRetry(msg) ==
    /\ mail.pc = "send"
    /\ mail' = [mail EXCEPT !.pc = "returned", !.tried = Append(@, "rejected"),
                            !.ret = Some([status |-> "failed", id |-> None, error |-> Some(msg)])]

\* emails.send rejects: after the first attempt wait 60 seconds, after the
\* second log the digest and return failed with the message.
SendRejected(msg) ==
    /\ mail.pc = "send"
    /\ mail' = IF mail.attempt = 1
               THEN [mail EXCEPT !.pc = "wait", !.tried = Append(@, "rejected")]
               ELSE [mail EXCEPT !.pc = "returned", !.tried = Append(@, "rejected"),
                       !.ret = Some([status |-> "failed", id |-> None, error |-> Some(msg)])]

\* The timer fires: the next turn of the loop calls emails.send again.
SendRetried ==
    /\ mail.pc = "wait"
    /\ mail' = [mail EXCEPT !.pc = "send", !.attempt = @ + 1,
                            !.waited = Append(@, RetryWaitMs)]

StoreInit ==
    /\ articles = {}
    /\ articleSeq = 1
    /\ upserts = [k \in Links \cup FetchLinks |-> [first |-> -1, last |-> -1, n |-> 0]]

(***************************************************************************)
(* The Friday check of runDailyDigest (server/scheduler.js), by the hour.  *)
(* new Date().getDay() is the day of the week on the wall clock of the     *)
(* zone the process runs in (TZ, else the host's zone); runDailyDigest is  *)
(* called by the 06:30 New York cron job and, with RUN_ON_STARTUP, when    *)
(* the process starts, at any hour.                                        *)
(***************************************************************************)
MaxRollups == 2     \* runs per behaviour

\* Zones the process may run in.
ServerZones == {"UTC", "America/New_York"}

\* Date.prototype.getDay() at instant i in a process of the given zone.
GetDay(i, zone) == (DateOf(WallClock(i, zone)) + StartWeekday) % 7

\* What signal-archive.jsonl may hold when a run reads it.
ArchivedFiles == {<<>>, <<JsonStringify(EmptyDigest(0))>>}

RollupBullets == {<<>>, <<"bullet">>}

IdleRollup == [pc |-> "off", zone |-> "", count |-> 0, digest |-> None,
               weeklyBullets |-> None, recent |-> None, sent |-> None]

RollupInit == rollup = IdleRollup

\* The process starts in its zone; initScheduler() has returned.
RollupBoot(zone) ==
    /\ rollup.pc = "off"
    /\ rollup' = [rollup EXCEPT !.pc = "idle", !.zone = zone]

\* A run with articles reaches the Friday check: generateInsights(articles)
\* has returned, weeklyBullets = null, today = new Date().
RollupChecked(nn) ==
    /\ rollup.pc = "idle"
    /\ rollup.count < MaxRollups
    /\ rollup' = [rollup EXCEPT
                    !.pc = IF GetDay(clock, rollup.zone) = Friday THEN "weekly" ELSE "send",
                    !.count = @ + 1,
                    !.digest = Some(GeneratedDigest(1, 1, nn, DateOf(clock))),
                    !.weeklyBullets = None, !.recent = None, !.sent = None]

\* recentDigests = await readRecentDigests(5);
\* weeklyBullets = await generateWeeklySummary(recentDigests): [] for no
\* digests, else the bullets of the model or [] (no key, a failure).
RollupSummarized(file, bullets) ==
    LET recentDigests == ReadRecentDigests(file, RecentCount)
    IN  /\ rollup.pc = "weekly"
        /\ rollup' = [rollup EXCEPT
                        !.pc = "send",
                        !.recent = Some(recentDigests),
                        !.weeklyBullets = Some(IF Len(recentDigests) = 0 THEN <<>> ELSE bullets)]

\* sendDigestEmail(digest, weeklyBullets) is called.
RollupSent ==
    /\ rollup.pc = "send"
    /\ rollup' = [rollup EXCEPT
                    !.pc = "idle",
                    !.sent = Some([digest |-> rollup.digest[1],
                                   weeklyBullets |-> rollup.weeklyBullets])]

(***************************************************************************)
(* The environment of the process: ANTHROPIC_API_KEY is read by            *)
(* generateInsights and generateWeeklySummary, DIGEST_EMAIL and            *)
(* RESEND_API_KEY by sendDigestEmail, at each call.                        *)
(***************************************************************************)
EnvRuns == 1        \* runs per behaviour
EnvDays == 1        \* days the clock advances

Environments ==
    [set : {TRUE}, ANTHROPIC_API_KEY : BOOLEAN, DIGEST_EMAIL : BOOLEAN,
     RESEND_API_KEY : BOOLEAN]

EnvInit ==
    env = [set |-> FALSE, ANTHROPIC_API_KEY |-> FALSE, DIGEST_EMAIL |-> FALSE,
           RESEND_API_KEY |-> FALSE]

\* The process starts with its environment.
EnvBoot(e) ==
    /\ ~env.set
    /\ env' = e

\* if (!process.env.ANTHROPIC_API_KEY): what may keep generateInsights from
\* an answer in this environment.
InsightsFailuresIn(e) ==
    IF e.ANTHROPIC_API_KEY THEN InsightsFailures \ {"no key"} ELSE {"no key"}

\* generateWeeklySummary: [] without the key.
BulletsIn(e) == IF e.ANTHROPIC_API_KEY THEN {<<>>, <<"bullet">>} ELSE {<<>>}

\* sendDigestEmail: { status: 'failed' } without DIGEST_EMAIL or RESEND_API_KEY,
\* else what the provider makes of it.
StatusesIn(e) == IF e.DIGEST_EMAIL /\ e.RESEND_API_KEY THEN Statuses ELSE {"failed"}

(***************************************************************************)
(* The trigger surface, GET /run-digest?token= (server/index.js of the     *)
(* deployed version, as the project's documentation and the specification  *)
(* describe it). The request is answered at once; an authorized one starts *)
(* runDailyDigest in the background and a periodic probe of /health that   *)
(* lasts as long as the run does.                                          *)
(***************************************************************************)
MaxRequests == 2    \* trigger requests per behaviour
TriggerRuns == 1    \* runs they start per behaviour
TriggerDays == 1    \* days the clock advances

CronSecret == Some("secret")    \* process.env.CRON_SECRET
Tokens == {None, Some("secre"), Some("secret"), Some("secret ")}

TriggerInit ==
    trig = [pc |-> "idle", requests |-> 0, token |-> None, reply |-> None,
            probe |-> FALSE]

\* A handler that takes any token that is present.
RunDigestRequestAnyToken(token) ==
    /\ trig.requests < MaxRequests
    /\ IF token # None
       THEN /\ trig.pc = "idle"
            /\ RunStart
            /\ trig' = [trig EXCEPT !.pc = "running", !.requests = @ + 1,
                                    !.token = token, !.reply = Some(200), !.probe = TRUE]
       ELSE /\ trig' = [trig EXCEPT !.requests = @ + 1, !.token = token,
                                    !.reply = Some(401)]
            /\ UNCHANGED runVars

\* The handler of the request: a token other than the secret is answered 401
\* and nothing else happens; the secret is answered 200, the probe is started
\* and runDailyDigest() is called without being awaited. (A request with the
\* secret while a run is executing is not modelled.)
RunDigestRequest(token) ==
    /\ trig.requests < MaxRequests
    /\ IF token = CronSecret
       THEN /\ trig.pc = "idle"
            /\ RunStart
            /\ trig' = [trig EXCEPT !.pc = "running", !.requests = @ + 1,
                                    !.token = token, !.reply = Some(200), !.probe = TRUE]
       ELSE /\ trig' = [trig EXCEPT !.requests = @ + 1, !.token = token,
                                    !.reply = Some(401)]
            /\ UNCHANGED runVars

\* A handler that stops the probe as the last statement of a run that went
\* through, not in a finally.
RunDigestSettledOnSuccess ==
    /\ trig.pc = "running" /\ run.pc = "idle"
    /\ trig' = [trig EXCEPT !.pc = "idle",
                            !.probe = ~(/\ run.trace # <<>>
                                        /\ run.trace[Len(run.trace)].ev = "append"
                                        /\ run.trace[Len(run.trace)].status = "ok")]
    /\ UNCHANGED runVars

\* The promise of runDailyDigest() settles: the probe is stopped, whatever
\* the run came to.
RunDigestSettled ==
    /\ trig.pc = "running" /\ run.pc = "idle"
    /\ trig' = [trig EXCEPT !.pc = "idle", !.probe = FALSE]
    /\ UNCHANGED runVars

(***************************************************************************)
(* POST /api/insights (server/index.js): getTodaysInsights, and without a  *)
(* result generateInsights and saveInsights. One request at a time, in     *)
(* request slot 1.                                                         *)
(***************************************************************************)
DemandInit == demand = [pc |-> "idle", cat |-> "", reply |-> None]

\* const todaysInsights = await getTodaysInsights(category): up to its query.
PostInsights(cat) ==
    /\ demand.pc = "idle"
    /\ TodayBegin(1, cat)
    /\ demand' = [pc |-> "today", cat |-> cat, reply |-> None]

\* if (todaysInsights) return res.json(todaysInsights);
\* else generateInsights(articles, category) is called.
PostChecked ==
    /\ demand.pc = "today"
    /\ call[1].pc = "returned"
    /\ Finish(1)
    /\ demand' = IF call[1].ret # None
                 THEN [demand EXCEPT !.pc = "idle", !.reply = call[1].ret]
                 ELSE [demand EXCEPT !.pc = "generate"]

\* generateInsights has returned variant v; saveInsights(insights, category,
\* dateRangeStart, dateRangeEnd) runs up to the first query of archiveInsights.
PostGenerated(v) ==
    /\ demand.pc = "generate"
    /\ SaveBegin(1, demand.cat, v)
    /\ demand' = [demand EXCEPT !.pc = "save", !.reply = Some(InsightsOf(v, now))]

\* await saveInsights(...) has returned: res.json(insights).
PostSaved ==
    /\ demand.pc = "save"
    /\ call[1].pc = "returned"
    /\ Finish(1)
    /\ demand' = [demand EXCEPT !.pc = "idle"]

(***************************************************************************)
(* POST /api/insights/refresh (server/index.js) and clearArchivedInsights  *)
(* (server/db.js). Date.now() is counted in minutes and is positive; the   *)
(* requests of one day.                                                    *)
(***************************************************************************)
CooldownMinutes == 60   \* FORCE_REFRESH_COOLDOWN_MS = 60 * 60 * 1000
ClearDays == 3          \* clearArchivedInsights: INTERVAL '3 days'

RefreshSlots == 1..2    \* requests in flight at once
MinuteStep == 30        \* minutes between two observations of Date.now()
MaxMinute == 120        \* the last minute observed

AdminPasswords == {None, Some("admin")}             \* process.env.ADMIN_REFRESH_PASSWORD
Passwords == {None, Some("admin"), Some("guess")}   \* req.body.password
ValidCategories == {"mortgage", "product-management", "competitor-intel", "all"}
RefreshCategories == Categories \cup {"sports"}

IdleRefresh == [pc |-> "idle", now |-> 0, cat |-> ""]

RefreshInit ==
    refresh = [booted |-> FALSE, adminPassword |-> None, minute |-> MinuteStep,
               lastForceRefreshTime |-> None, req |-> [r \in RefreshSlots |-> IdleRefresh],
               status |-> None]

\* Date.now()
DateNow == refresh.minute

\* The process starts with its environment.
RefreshBoot(pw) ==
    /\ ~refresh.booted
    /\ refresh' = [refresh EXCEPT !.booted = TRUE, !.adminPassword = pw]

RefreshTick ==
    /\ refresh.minute + MinuteStep <= MaxMinute
    /\ refresh' = [refresh EXCEPT !.minute = @ + MinuteStep]

\* if (lastForceRefreshTime) { if (now - lastForceRefreshTime < COOLDOWN) 429 }
CoolingDown(last, t) == last # None /\ last[1] # 0 /\ t - last[1] < CooldownMinutes

\* The handler up to its first await: the checks of the password, of the
\* cooldown and of the category, then clearArchivedInsights(category) up to
\* its query.
RefreshRequest(r, password, category) ==
    LET status == IF refresh.adminPassword = None THEN 503
                  ELSE IF password = None \/ password # refresh.adminPassword THEN 401
                  ELSE IF CoolingDown(refresh.lastForceRefreshTime, DateNow) THEN 429
                  ELSE IF category \notin ValidCategories THEN 400
                  ELSE 0
    IN  /\ refresh.booted
        /\ refresh.req[r].pc = "idle"
        /\ refresh' = IF status # 0
                      THEN [refresh EXCEPT !.status = Some(status)]
                      ELSE [refresh EXCEPT
                              !.status = None,
                              !.req[r] = [pc |-> "delete", now |-> DateNow, cat |-> category]]
        /\ UNCHANGED archiveVars

\* DELETE FROM insights_archive WHERE [category = $1 AND]
\* generated_at > NOW() - INTERVAL '3 days': the statement runs in the store.
RefreshDelete(r) ==
    LET q == refresh.req[r]
    IN  /\ q.pc = "delete"
        /\ archive' = {row \in archive :
                         ~(/\ q.cat = "all" \/ row.category = q.cat
                           /\ row.generated_at > now - ClearDays)}
        /\ refresh' = [refresh EXCEPT !.req[r].pc = "clear"]
        /\ UNCHANGED <<archiveSeq, cache, call, hist>>

\* The query has resolved: insightsCache.clear() or .delete(category),
\* return { cleared }; lastForceRefreshTime = now; res.json(...).
RefreshCleared(r) ==
    LET q == refresh.req[r]
    IN  /\ q.pc = "clear"
        /\ cache' = IF q.cat = "all" THEN CacheClear(cache) ELSE CacheDelete(cache, q.cat)
        /\ refresh' = [refresh EXCEPT
                         !.req[r] = IdleRefresh, !.status = Some(200),
                         !.lastForceRefreshTime = Some(q.now)]
        /\ UNCHANGED <<archive, archiveSeq, call, hist>>

\* The query has rejected: clearArchivedInsights catches and returns
\* { cleared: 0 }; lastForceRefreshTime = now; res.json(...).
RefreshDeleteFailed(r) ==
    LET q == refresh.req[r]
    IN  /\ q.pc = "delete"
        /\ refresh' = [refresh EXCEPT
                         !.req[r] = IdleRefresh, !.status = Some(200),
                         !.lastForceRefreshTime = Some(q.now)]
        /\ UNCHANGED archiveVars

(***************************************************************************)
(* SpecStore: any sequence of saveArticle calls, the clock advancing       *)
(***************************************************************************)
InitStore ==
    /\ now = 0
    /\ clock = 0
    /\ StoreInit /\ ArchiveInit /\ LimiterInit /\ FetchInit /\ RunInit
    /\ LruInit
    /\ PhaseInit
    /\ ScrapeInit
    /\ MailInit
    /\ AskedInit
    /\ SweepInit
    /\ RollupInit
    /\ EnvInit
    /\ TriggerInit
    /\ DemandInit
    /\ RefreshInit

NextStore ==
    \/ Tick /\ UNCHANGED <<clock, unitVars, storeVars, archiveVars, limiterVars, fetchVars, runVars>>
    \/ \E a \in ArticleInputs :
         SaveArticle(a) /\ UNCHANGED <<now, clock, unitVars, archiveVars, limiterVars, fetchVars, runVars>>

SpecStore == InitStore /\ [][NextStore]_vars

(***************************************************************************)
(* SpecArchive: saveInsights, getInsights, getTodaysInsights and           *)
(* clearInsights called from NumSlots requests that overlap within one     *)
(* day (the clock stands still).                                           *)
(* SpecArchiveSeq: the same calls one after the other, over several days.  *)
(***************************************************************************)
InitArchive == InitStore

othersArchive == <<storeVars, limiterVars, fetchVars, runVars>>

ArchiveStep(p) ==
    \/ \E cat \in Categories, v \in Variants : SaveBegin(p, cat, v)
    \/ SaveCheck(p)
    \/ SaveWrite(p)
    \/ SaveReturn(p)
    \/ \E cat \in Categories : GetBegin(p, cat)
    \/ GetQuery(p)
    \/ \E cat \in Categories : TodayBegin(p, cat)
    \/ TodayQuery(p)
    \/ Finish(p)

NextArchive ==
    \/ \E p \in Slots : ArchiveStep(p) /\ UNCHANGED <<now, clock, unitVars, othersArchive>>
    \/ \E cat \in {None} \cup {Some(c) : c \in Categories} :
         ClearInsights(cat) /\ UNCHANGED <<now, clock, unitVars, othersArchive>>

SpecArchive == InitArchive /\ [][NextArchive]_vars

AllIdle == \A p \in Slots : Idle(p)

\* A call begins only when no other call is in flight, and takes no time.
NextArchiveSeq ==
    \/ AllIdle /\ Tick /\ UNCHANGED <<clock, unitVars, archiveVars, othersArchive>>
    \/ \E p \in Slots :
         /\ \A q \in Slots \ {p} : Idle(q)
         /\ ArchiveStep(p)
         /\ UNCHANGED <<now, clock, unitVars, othersArchive>>
    \/ \E cat \in {None} \cup {Some(c) : c \in Categories} :
         AllIdle /\ ClearInsights(cat) /\ UNCHANGED <<now, clock, unitVars, othersArchive>>

SpecArchiveSeq == InitArchive /\ [][NextArchiveSeq]_vars

(***************************************************************************)
(* SpecDemand: requests to POST /api/insights for any category, one after  *)
(* the other, over several days.                                           *)
(***************************************************************************)
othersDemand == <<clock, storeVars, limiterVars, fetchVars, runVars, lruVars, phase, scrape, mail, asked, sweep, rollup, env, trig, refresh>>

NextDemand ==
    \/ demand.pc = "idle" /\ Tick /\ UNCHANGED <<archiveVars, demand, othersDemand>>
    \/ \E cat \in Categories : PostInsights(cat) /\ UNCHANGED <<now, othersDemand>>
    \/ TodayQuery(1) /\ UNCHANGED <<now, demand, othersDemand>>
    \/ PostChecked /\ UNCHANGED <<now, othersDemand>>
    \/ \E v \in Variants : PostGenerated(v) /\ UNCHANGED <<now, othersDemand>>
    \/ SaveCheck(1) /\ UNCHANGED <<now, demand, othersDemand>>
    \/ SaveWrite(1) /\ UNCHANGED <<now, demand, othersDemand>>
    \/ SaveReturn(1) /\ UNCHANGED <<now, demand, othersDemand>>
    \/ PostSaved /\ UNCHANGED <<now, othersDemand>>

SpecDemand == InitStore /\ [][NextDemand]_vars

(***************************************************************************)
(* SpecRefresh: requests to POST /api/insights/refresh, overlapping or     *)
(* not, between saveInsights calls that fill the cache and the archive.    *)
(***************************************************************************)
othersRefresh == <<clock, storeVars, limiterVars, fetchVars, runVars, lruVars, phase, scrape, mail, asked, sweep, rollup, env, trig, demand>>

RefreshIdle == \A r \in RefreshSlots : refresh.req[r].pc = "idle"

NextRefresh ==
    \/ \E pw \in AdminPasswords : RefreshBoot(pw) /\ UNCHANGED <<now, archiveVars, othersRefresh>>
    \/ AllIdle /\ RefreshTick /\ UNCHANGED <<now, archiveVars, othersRefresh>>
    \/ \E r \in RefreshSlots, password \in Passwords, category \in RefreshCategories :
         AllIdle /\ RefreshRequest(r, password, category) /\ UNCHANGED <<now, othersRefresh>>
    \/ \E r \in RefreshSlots : RefreshDelete(r) /\ UNCHANGED <<now, othersRefresh>>
    \/ \E r \in RefreshSlots : RefreshCleared(r) /\ UNCHANGED <<now, othersRefresh>>
    \/ \E r \in RefreshSlots : RefreshDeleteFailed(r) /\ UNCHANGED <<now, othersRefresh>>
    \/ \E cat \in Categories :
         RefreshIdle /\ SaveBegin(1, cat, "A") /\ UNCHANGED <<now, refresh, othersRefresh>>
    \/ SaveCheck(1) /\ UNCHANGED <<now, refresh, othersRefresh>>
    \/ SaveWrite(1) /\ UNCHANGED <<now, refresh, othersRefresh>>
    \/ SaveReturn(1) /\ UNCHANGED <<now, refresh, othersRefresh>>
    \/ Finish(1) /\ UNCHANGED <<now, refresh, othersRefresh>>

SpecRefresh == InitStore /\ [][NextRefresh]_vars

(***************************************************************************)
(* SpecHistory: artifacts archived at any hour of four days, and the       *)
(* archive browsed in between, one call at a time.                         *)
(***************************************************************************)
othersHistory == <<now, unitVars, storeVars, limiterVars, fetchVars, runVars>>

NextHistory ==
    \/ AllIdle /\ TickHours /\ UNCHANGED <<archiveVars, othersHistory>>
    \/ \E cat \in Categories, v \in Variants :
         AllIdle /\ ArchiveInsights(cat, v) /\ UNCHANGED <<clock, othersHistory>>
    \/ \E p \in Slots : \E f \in HistoryFilters(clock) :
         AllIdle /\ GetArchivedInsights(p, f) /\ UNCHANGED <<clock, othersHistory>>
    \/ \E p \in Slots, id \in 1..MaxArchiveRows :
         AllIdle /\ GetArchivedInsightById(p, id) /\ UNCHANGED <<clock, othersHistory>>
    \/ \E p \in Slots, keyword \in Keywords, cat \in {None} \cup {Some(c) : c \in Specific} :
         AllIdle /\ SearchArchivedInsights(p, keyword, cat) /\ UNCHANGED <<clock, othersHistory>>
    \/ \E p \in Slots : Finish(p) /\ UNCHANGED <<clock, othersHistory>>

SpecHistory == InitStore /\ [][NextHistory]_vars

(***************************************************************************)
(* SpecCache: every method of an LRUCache called in any order, over days.  *)
(***************************************************************************)
othersCache == <<clock, storeVars, archiveVars, limiterVars, fetchVars, runVars, phase, scrape, mail, asked, sweep, rollup, env, trig, demand, refresh>>

NextCache ==
    \/ now < LruDays /\ Tick /\ UNCHANGED <<lruVars, othersCache>>
    \/ \E k \in LruKeys, v \in LruValues : LruSetOp(k, v) /\ UNCHANGED <<now, othersCache>>
    \/ \E k \in LruKeys : LruGetOp(k) /\ UNCHANGED <<now, othersCache>>
    \/ \E k \in LruKeys : LruHasOp(k) /\ UNCHANGED <<now, othersCache>>
    \/ \E k \in LruKeys : LruDeleteOp(k) /\ UNCHANGED <<now, othersCache>>
    \/ LruClearOp /\ UNCHANGED <<now, othersCache>>

SpecCache == InitStore /\ [][NextCache]_vars

(***************************************************************************)
(* SpecOverlap: the daily run and POST /api/refresh calling fetchAllFeeds  *)
(* at any moment, each source and scraper returning at any moment.         *)
(***************************************************************************)
othersOverlap == <<now, clock, storeVars, archiveVars, limiterVars, fetchVars, runVars, lruVars, scrape, mail, asked, sweep, rollup, env, trig, demand, refresh>>

NextOverlap ==
    \/ \E p \in Callers : PhaseBegin(p) /\ UNCHANGED othersOverlap
    \/ \E p \in Callers : PhaseSourceSettled(p) /\ UNCHANGED othersOverlap
    \/ \E p \in Callers : PhaseRssJoined(p) /\ UNCHANGED othersOverlap
    \/ \E p \in Callers, j \in Scrapers : PhaseScraped(p, j) /\ UNCHANGED othersOverlap
    \/ \E p \in Callers : PhaseReturned(p) /\ UNCHANGED othersOverlap

SpecOverlap == InitStore /\ [][NextOverlap]_vars

(***************************************************************************)
(* SpecScrape: one call of a scrape adapter, on any page.                  *)
(***************************************************************************)
othersScrape == <<clock, storeVars, archiveVars, limiterVars, fetchVars, runVars, lruVars, phase, mail, asked, sweep, rollup, env, trig, demand, refresh>>

NextScrape ==
    \/ now < 1 /\ Tick /\ UNCHANGED <<scrape, othersScrape>>
    \/ \E adapter \in Adapters, max \in 1..MaxWanted :
         ScrapeCalled(adapter, max) /\ UNCHANGED <<now, othersScrape>>
    \/ ScrapeFetchThrew /\ UNCHANGED <<now, othersScrape>>
    \/ /\ scrape.pc = "fetch"
       /\ \E ok \in BOOLEAN, page \in Pages(scrape.adapter) :
            ScrapeResponded(ok, page) /\ UNCHANGED <<now, othersScrape>>

SpecScrape == InitStore /\ [][NextScrape]_vars

(***************************************************************************)
(* SpecMail: calls of sendDigestEmail one after the other, on any day,     *)
(* with any configuration, the provider resolving or rejecting each call.  *)
(***************************************************************************)
othersMail == <<clock, storeVars, archiveVars, limiterVars, fetchVars, runVars, lruVars, phase, scrape, asked, sweep, rollup, env, trig, demand, refresh>>

NextMail ==
    \/ Tick /\ UNCHANGED <<mail, othersMail>>
    \/ \E hasTo, hasKey, weekly \in BOOLEAN :
         SendCalled(hasTo, hasKey, weekly) /\ UNCHANGED <<now, othersMail>>
    \/ \E id \in ProviderIds : SendResolved(id) /\ UNCHANGED <<now, othersMail>>
    \/ \E msg \in ProviderErrors : SendRejected(msg) /\ UNCHANGED <<now, othersMail>>
    \/ SendRetried /\ UNCHANGED <<now, othersMail>>

SpecMail == InitStore /\ [][NextMail]_vars

(***************************************************************************)
(* SpecQuery: articles saved over two days, and getArticles called with    *)
(* any filters in between.                                                 *)
(***************************************************************************)
othersQuery == <<clock, archiveVars, limiterVars, fetchVars, runVars, lruVars, phase, scrape, mail, sweep, rollup, env, trig, demand, refresh>>

NextQuery ==
    \/ now < 1 /\ Tick /\ UNCHANGED <<storeVars, asked, othersQuery>>
    \/ \E a \in ArticleInputs :
         UpsertCount < MaxStored /\ SaveArticle(a) /\ UNCHANGED <<now, asked, othersQuery>>
    \/ \E f \in FilterInputs, fails \in BOOLEAN :
         GetArticles(f, fails) /\ UNCHANGED <<now, storeVars, othersQuery>>

SpecQuery == InitStore /\ [][NextQuery]_vars

(***************************************************************************)
(* SpecSweep: saveArticle and cleanOldArticles called in any order, each a *)
(* single statement, over days.                                            *)
(***************************************************************************)
othersSweep == <<clock, archiveVars, limiterVars, fetchVars, runVars, lruVars, phase, scrape, mail, asked, rollup, env, trig, demand, refresh>>

NextSweep ==
    \/ now < SweepDays /\ Tick /\ UNCHANGED <<storeVars, sweep, othersSweep>>
    \/ \E a \in DatedArticles :
         UpsertCount < MaxStored /\ SaveArticle(a) /\ UNCHANGED <<now, sweep, othersSweep>>
    \/ \E ok \in BOOLEAN : CleanOldArticles(ok) /\ UNCHANGED <<now, othersSweep>>

SpecSweep == InitStore /\ [][NextSweep]_vars

(***************************************************************************)
(* SpecRollup: runs with articles started at any hour of four days, in a   *)
(* process of either zone.                                                 *)
(***************************************************************************)
othersRollup == <<now, storeVars, archiveVars, limiterVars, fetchVars, runVars, lruVars, phase, scrape, mail, asked, sweep, env, trig, demand, refresh>>

NextRollup ==
    \/ rollup.pc = "idle" /\ TickHours /\ UNCHANGED <<rollup, othersRollup>>
    \/ \E zone \in ServerZones : RollupBoot(zone) /\ UNCHANGED <<clock, othersRollup>>
    \/ \E nn \in BOOLEAN : RollupChecked(nn) /\ UNCHANGED <<clock, othersRollup>>
    \/ \E file \in ArchivedFiles, bullets \in RollupBullets :
         RollupSummarized(file, bullets) /\ UNCHANGED <<clock, othersRollup>>
    \/ RollupSent /\ UNCHANGED <<clock, othersRollup>>

SpecRollup == InitStore /\ [][NextRollup]_vars

(***************************************************************************)
(* SpecLimiter: a limiter of concurrency Width, operations submitted at    *)
(* any moment and settling either way.                                     *)
(* SpecLimiterFair: the same, where a started operation eventually settles *)
(* and the reactions of a settled promise eventually run.                  *)
(***************************************************************************)
othersLimiter == <<now, clock, unitVars, storeVars, archiveVars, fetchVars, runVars>>

Ops == 1..NumOps

\* The value operation o produces.
ValueOf(o) == <<o>>

NextLimiter ==
    \/ Submit(Width) /\ UNCHANGED othersLimiter
    \/ \E o \in Ops, ok \in BOOLEAN : Settle(o, ok, ValueOf(o)) /\ UNCHANGED othersLimiter
    \/ \E o \in Ops : Deliver(o) /\ UNCHANGED othersLimiter
    \/ \E o \in Ops : Release(Width, o) /\ UNCHANGED othersLimiter

SpecLimiter == InitStore /\ [][NextLimiter]_vars

SpecLimiterFair ==
    /\ SpecLimiter
    /\ \A o \in Ops :
         /\ WF_vars(\E ok \in BOOLEAN : Settle(o, ok, ValueOf(o)) /\ UNCHANGED othersLimiter)
         /\ WF_vars(Deliver(o) /\ UNCHANGED othersLimiter)
         /\ WF_vars(Release(Width, o) /\ UNCHANGED othersLimiter)

(***************************************************************************)
(* SpecRun: runs of runDailyDigest, one at a time, on successive days      *)
(***************************************************************************)
othersRun == <<storeVars, archiveVars, limiterVars, fetchVars>>

Windows == {<<n, sc>> \in (0..MaxArticles) \X (0..MaxArticles) :
              IF n = 0 THEN sc = 0 ELSE sc \in 1..n}

NextRun ==
    \/ run.pc = "idle" /\ Tick /\ UNCHANGED <<clock, unitVars, runVars, othersRun>>
    \/ RunStart /\ UNCHANGED <<now, clock, unitVars, othersRun>>
    \/ RunFetched /\ UNCHANGED <<now, clock, unitVars, othersRun>>
    \/ RunFetchThrew /\ UNCHANGED <<now, clock, unitVars, othersRun>>
    \/ RunQueryFailed /\ UNCHANGED <<now, clock, unitVars, othersRun>>
    \/ RunGenerateFailed /\ UNCHANGED <<now, clock, unitVars, othersRun>>
    \/ \E w \in Windows : RunQueried(w[1], w[2]) /\ UNCHANGED <<now, clock, unitVars, othersRun>>
    \/ \E st \in Statuses : RunEmptySent(st) /\ UNCHANGED <<now, clock, unitVars, othersRun>>
    \/ \E nn \in BOOLEAN : RunGenerated(nn) /\ UNCHANGED <<now, clock, unitVars, othersRun>>
    \/ \E b \in {<<>>, <<"bullet">>} : RunWeekly(b) /\ UNCHANGED <<now, clock, unitVars, othersRun>>
    \/ \E st \in Statuses : RunDelivered(st) /\ UNCHANGED <<now, clock, unitVars, othersRun>>
    \/ \E ok \in BOOLEAN : RunAppended(ok) /\ UNCHANGED <<now, clock, unitVars, othersRun>>

SpecRun == InitStore /\ [][NextRun]_vars

(***************************************************************************)
(* SpecEnv: runs of runDailyDigest in a process of any environment.        *)
(***************************************************************************)
othersEnv == <<clock, storeVars, archiveVars, limiterVars, fetchVars, lruVars, phase, scrape, mail, asked, sweep, rollup, trig, demand, refresh>>

NextEnv ==
    \/ \E e \in Environments : EnvBoot(e) /\ UNCHANGED <<now, runVars, othersEnv>>
    \/ env.set /\ run.pc = "idle" /\ now < EnvDays /\ Tick /\ UNCHANGED <<env, runVars, othersEnv>>
    \/ env.set /\ run.count < EnvRuns /\ RunStart /\ UNCHANGED <<now, env, othersEnv>>
    \/ RunFetched /\ UNCHANGED <<now, env, othersEnv>>
    \/ RunFetchThrew /\ UNCHANGED <<now, env, othersEnv>>
    \/ RunQueryFailed /\ UNCHANGED <<now, env, othersEnv>>
    \/ \E w \in Windows : RunQueried(w[1], w[2]) /\ UNCHANGED <<now, env, othersEnv>>
    \/ \E st \in StatusesIn(env) : RunEmptySent(st) /\ UNCHANGED <<now, env, othersEnv>>
    \/ \E nn \in BOOLEAN :
         env.ANTHROPIC_API_KEY /\ RunGenerated(nn) /\ UNCHANGED <<now, env, othersEnv>>
    \/ \E why \in InsightsFailuresIn(env) :
         RunGenerateFailedFor(why) /\ UNCHANGED <<now, env, othersEnv>>
    \/ \E b \in BulletsIn(env) : RunWeekly(b) /\ UNCHANGED <<now, env, othersEnv>>
    \/ \E st \in StatusesIn(env) : RunDelivered(st) /\ UNCHANGED <<now, env, othersEnv>>
    \/ \E ok \in BOOLEAN : RunAppended(ok) /\ UNCHANGED <<now, env, othersEnv>>

SpecEnv == InitStore /\ [][NextEnv]_vars

(***************************************************************************)
(* SpecTrigger: trigger requests with any token, the runs they start.      *)
(* SpecTriggerFair: the same, where a step that can be taken is taken.     *)
(***************************************************************************)
othersTrigger == <<clock, storeVars, archiveVars, limiterVars, fetchVars, lruVars, phase, scrape, mail, asked, sweep, rollup, env, demand, refresh>>

NextTrigger ==
    \/ trig.pc = "idle" /\ now < TriggerDays /\ Tick /\ UNCHANGED <<trig, runVars, othersTrigger>>
    \/ \E token \in Tokens :
         /\ token = CronSecret => run.count < TriggerRuns
         /\ RunDigestRequest(token) /\ UNCHANGED <<now, othersTrigger>>
    \/ RunDigestSettled /\ UNCHANGED <<now, othersTrigger>>
    \/ RunFetched /\ UNCHANGED <<now, trig, othersTrigger>>
    \/ RunFetchThrew /\ UNCHANGED <<now, trig, othersTrigger>>
    \/ RunQueryFailed /\ UNCHANGED <<now, trig, othersTrigger>>
    \/ RunGenerateFailed /\ UNCHANGED <<now, trig, othersTrigger>>
    \/ \E w \in Windows : RunQueried(w[1], w[2]) /\ UNCHANGED <<now, trig, othersTrigger>>
    \/ \E st \in Statuses : RunEmptySent(st) /\ UNCHANGED <<now, trig, othersTrigger>>
    \/ \E nn \in BOOLEAN : RunGenerated(nn) /\ UNCHANGED <<now, trig, othersTrigger>>
    \/ \E b \in {<<>>, <<"bullet">>} : RunWeekly(b) /\ UNCHANGED <<now, trig, othersTrigger>>
    \/ \E st \in Statuses : RunDelivered(st) /\ UNCHANGED <<now, trig, othersTrigger>>
    \/ \E ok \in BOOLEAN : RunAppended(ok) /\ UNCHANGED <<now, trig, othersTrigger>>

SpecTrigger == InitStore /\ [][NextTrigger]_vars

\* Every step of a run is a callback the event loop runs once its I/O is done.
RunSteps ==
    \/ RunFetched \/ RunFetchThrew \/ RunQueryFailed \/ RunGenerateFailed
    \/ \E w \in Windows : RunQueried(w[1], w[2])
    \/ \E st \in Statuses : RunEmptySent(st) \/ RunDelivered(st)
    \/ \E nn \in BOOLEAN : RunGenerated(nn)
    \/ \E b \in {<<>>, <<"bullet">>} : RunWeekly(b)
    \/ \E ok \in BOOLEAN : RunAppended(ok)

SpecTriggerFair ==
    /\ SpecTrigger
    /\ WF_vars(RunDigestSettled /\ UNCHANGED <<now, othersTrigger>>)
    /\ WF_vars(RunSteps /\ UNCHANGED <<now, trig, othersTrigger>>)

(***************************************************************************)
(* SpecFetch: the fetch phase of one run: NumFeeds RSS sources through a   *)
(* limiter of RssConcurrency, then the scrapers; any source may fail.      *)
(***************************************************************************)
NextFetch ==
    \/ RunStart /\ run.count = 0
         /\ UNCHANGED <<now, clock, unitVars, storeVars, archiveVars, limiterVars, fetchVars>>
    \/ FetchBegin /\ UNCHANGED <<now, clock, unitVars, archiveVars, runVars>>
    \/ \E s \in Feeds, k \in 0..MaxItems, bad \in 0..1 :
         FeedParsed(s, k, bad) /\ UNCHANGED <<now, clock, unitVars, archiveVars, runVars>>
    \/ \E s \in Feeds : FeedAttemptFailed(s) /\ UNCHANGED <<now, clock, unitVars, archiveVars, runVars>>
    \/ \E s \in Feeds : Deliver(s) /\ UNCHANGED <<now, clock, unitVars, storeVars, archiveVars, fetchVars, runVars>>
    \/ \E s \in Feeds : Release(RssConcurrency, s)
         /\ UNCHANGED <<now, clock, unitVars, storeVars, archiveVars, fetchVars, runVars>>
    \/ RssJoined /\ UNCHANGED <<now, clock, unitVars, archiveVars, runVars>>
    \/ \E j \in Scrapers, k \in 0..MaxItems, failed \in BOOLEAN :
         Scraped(j, k, failed) /\ UNCHANGED <<now, clock, unitVars, archiveVars, runVars>>
    \/ \E bad \in 0..1 : FetchReturned(bad) /\ UNCHANGED <<now, clock, unitVars, archiveVars, runVars>>
    \/ RunFetchSettled /\ UNCHANGED <<now, clock, unitVars, storeVars, archiveVars, limiterVars>>

SpecFetch == InitStore /\ [][NextFetch]_vars

(***************************************************************************)
(* Claims about the content store (SpecStore)                              *)
(***************************************************************************)
\* C1: for every sequence of saveArticle calls sharing a link, in any
\* interleaving, the store holds exactly one row for that link, and its
\* saved_at is the time of the first of these calls; a link never saved has no row.
C1_DedupFirstSeen ==
    \A k \in Links :
      LET R == RowsOf(articles, k)
      IN  IF upserts[k].n = 0 THEN R = {}
          ELSE /\ Cardinality(R) = 1
               /\ \A r \in R : r.saved_at = upserts[k].first

\* A link saved twice, the second time later than the first and with other
\* content: the row keeps the source of the first call and has the title of the second.
C1_Witness ==
    \E k \in Links : \E r \in RowsOf(articles, k) :
      /\ upserts[k].n >= 2
      /\ upserts[k].last > upserts[k].first
      /\ r.source = "s1" /\ r.title = "t2"

C15_NoEmptyIdentity ==
    \A r \in articles : r.link # ""

(***************************************************************************)
(* Claims about the archive                                                *)
(***************************************************************************)
SavingTo(c) == \E p \in Slots : call[p].fn = "saveInsights" /\ call[p].cat = c

\* C2 (SpecArchive): when saveInsights calls for the same specific category
\* overlap, the archive ends (no such call in flight any more) with at most
\* one row of that category inside the collision window.
C2_OneRowPerWindow ==
    \A c \in Specific :
      ~SavingTo(c) => Cardinality(RecentRows(archive, c, now, CollisionDays)) <= 1

\* The step in which the archiveInsights of slot p writes its row.
Writes(p) == call[p].pc = "save_write" /\ call'[p].pc = "save_return"

\* C3 (SpecArchiveSeq): when a saveInsights call with a non-empty artifact
\* writes the archive within the collision window (3 days) of the previous
\* such call for the same category, no row is added, the category has exactly
\* one row in the window, and every field of that row is the value the second
\* call was given (a missing list is [], a missing range the default one).
C3_SecondSaveWins ==
    [][\A p \in Slots :
         LET c == call[p]
             ins == c.ins[1]
             R == RecentRows(archive', c.cat, now, CollisionDays)
         IN  (/\ Writes(p)
              /\ hist[c.cat].at >= 0
              /\ now - hist[c.cat].at < CollisionDays)
             => /\ Cardinality(archive') = Cardinality(archive)
                /\ Cardinality(R) = 1
                /\ \A r \in R :
                     /\ JsonParse(r.tldr) = OrElse(ins.tldr, <<>>)
                     /\ JsonParse(r.recommended_actions) = OrElse(ins.recommendedActions, <<>>)
                     /\ JsonParse(r.themes) = ins.themes[1]
                     /\ r.article_count = OrElse(ins.articleCount, 0)
                     /\ r.date_range_start = OrElse(c.drs, now - DefaultRangeDays)
                     /\ r.date_range_end = OrElse(c.dre, now)
                     /\ r.generated_at = ins.generatedAt[1]
      ]_vars

\* Two saves of one category a day or two apart, the second with the fallback
\* artifact: one row, generated now, with the themes of the second.
C3_Witness ==
    \E c \in Specific : \E r \in archive :
      /\ hist[c].prevAt >= 0
      /\ hist[c].at = now
      /\ hist[c].at - hist[c].prevAt \in 1..(CollisionDays - 1)
      /\ archive = {r}
      /\ r.category = c /\ r.generated_at = now
      /\ JsonParse(r.themes) = <<"th2", "th3">>

Getters == {"getInsights", "getTodaysInsights"}
WindowOf(fn) == IF fn = "getInsights" THEN RestoreDays ELSE RecentDays

\* The getter call of slot p has returned, and nothing has happened since.
GetterReturned(p) == call[p].pc = "returned" /\ call[p].fn \in Getters

\* C6 (SpecArchiveSeq): getInsights and getTodaysInsights return an artifact
\* only if its generation timestamp lies within the freshness window of the
\* function (4 and 3 days) at the time of the call, and return nothing only
\* if the archive has no row of the category within that window.
C6_FreshIff ==
    \A p \in Slots :
      GetterReturned(p) =>
        LET r == call[p]
        IN  /\ (r.ret # None /\ r.ret[1].generatedAt # None)
                 => now - r.ret[1].generatedAt[1] < WindowOf(r.fn)
            /\ r.ret = None
                 => RecentRows(archive, r.cat, now, WindowOf(r.fn)) = {}

\* The same statement for getTodaysInsights alone, which checks the
\* generation time of a cache entry (isGeneratedRecently).
TodaysInsightsFresh ==
    \A p \in Slots :
      (GetterReturned(p) /\ call[p].fn = "getTodaysInsights") =>
        LET r == call[p]
        IN  /\ r.ret # None
                 => /\ r.ret[1].generatedAt # None
                    /\ now - r.ret[1].generatedAt[1] < RecentDays
            /\ r.ret = None
                 => (r.cat = "all" \/ RecentRows(archive, r.cat, now, RecentDays) = {})

\* A step of the saveInsights call of slot p, and the artifact of that call.
SaveStep(p) == call'[p] # call[p] /\ (call[p].ins # None \/ call'[p].ins # None)
SavedIns(p) == IF call[p].ins # None THEN call[p].ins[1] ELSE call'[p].ins[1]
SavedCat(p) == IF call[p].ins # None THEN call[p].cat ELSE call'[p].cat
SaveCalled(p) == Idle(p) /\ call'[p].fn = "saveInsights" /\ call'[p].pc # "returned"
SaveReturned(p) == call[p].pc = "save_return" /\ call'[p].pc = "returned"
HasEntry(c, k, v) == k \in CacheKeys(c) /\ CacheEntry(c, k).value = v

StructurallyEmpty(ins) == ins.success = FALSE \/ ins.themes \in {None, Some(<<>>)}

\* C17 (SpecArchiveSeq): a saveInsights call whose artifact is empty (no
\* success, or no theme) changes no archive row, writes the artifact to the
\* cache, and returns that cache entry, not null.
C17_EmptyNotArchived ==
    [][\A p \in Slots :
         (SaveStep(p) /\ StructurallyEmpty(SavedIns(p))) =>
           /\ archive' = archive /\ archiveSeq' = archiveSeq
           /\ SaveCalled(p) => HasEntry(cache', SavedCat(p), Cached(SavedIns(p), now))
           /\ SaveReturned(p) =>
                /\ call'[p].ret = Some(Cached(SavedIns(p), now))
                /\ HasEntry(cache', SavedCat(p), Cached(SavedIns(p), now))]_vars

\* The archive has a row of 'mortgage' from an earlier day, and a saveInsights
\* call for 'mortgage' with an empty artifact has returned its cache entry.
C17_Witness ==
    \E p \in Slots : \E r \in archive :
      /\ call[p].pc = "returned" /\ call[p].fn = "saveInsights"
      /\ call[p].cat = "mortgage"
      /\ call[p].ret # None /\ StructurallyEmpty(call[p].ret[1])
      /\ HasEntry(cache, "mortgage", call[p].ret[1])
      /\ r.category = "mortgage" /\ r.generated_at < now
      /\ JsonParse(r.themes) # <<>>

\* C18 (SpecArchiveSeq): clearInsights(category) removes the cache entry of that
\* category and leaves the other entries, in their order; clearInsights()
\* empties the cache; neither changes an archive row.
C18_ClearOnlyCache ==
    [][\A cat \in {None} \cup {Some(c) : c \in Categories} :
         ClearInsights(cat) =>
           /\ archive' = archive /\ archiveSeq' = archiveSeq
           /\ IF cat = None THEN cache' = <<>>
              ELSE /\ CacheKeys(cache') = CacheKeys(cache) \ {cat[1]}
                   /\ \A k \in CacheKeys(cache') : CacheEntry(cache', k) = CacheEntry(cache, k)
                   /\ \A i, j \in 1..Len(cache') :
                        i < j => CacheIndex(cache, cache'[i].key) < CacheIndex(cache, cache'[j].key)]_vars

\* 'mortgage' was saved today (its row is in the archive, its cache entry
\* cannot have expired) and then cleared from the cache, while the entry of
\* 'all' is still there.
C18_Witness ==
    /\ AllIdle
    /\ "all" \in CacheKeys(cache) /\ "mortgage" \notin CacheKeys(cache)
    /\ hist["mortgage"].at = now
    /\ \E r \in archive : r.category = "mortgage" /\ r.generated_at = now

(***************************************************************************)
(* Claims about the limiter                                                *)
(***************************************************************************)
Executing(f) == {o \in DOMAIN f : f[o].st = "running"}
Holding(f) == {o \in DOMAIN f : f[o].st \in {"running", "settled", "delivered"}}
StartedOps(f) == {o \in DOMAIN f : f[o].st # "queued"}

\* C7 (SpecLimiter): at every moment at most Width submitted operations are
\* executing (started and not yet settled), whatever succeeded or failed;
\* nor does the limiter count more than Width slots taken.
C7_AtMostWidth ==
    /\ Cardinality(Executing(op)) <= Width
    /\ active <= Width

\* More operations submitted than the width, Width of them executing and one
\* waiting, after an earlier one failed.
C7_Witness ==
    /\ Cardinality(Executing(op)) = Width
    /\ Len(queue) >= 1
    /\ \E o \in DOMAIN op : op[o].outcome # None /\ ~op[o].outcome[1].ok

\* The operations that start in this step.
Starting == StartedOps(op') \ StartedOps(op)

\* C8 (SpecLimiter): operations start in submission order: when an operation
\* starts, every operation submitted before it has started; and it starts
\* only when a slot is free: the other operations holding a slot are fewer
\* than Width.
C8_SubmissionOrder ==
    [][\A o \in Starting :
         /\ \A e \in 1..(o - 1) : e \in StartedOps(op')
         /\ Cardinality(Holding(op') \ {o}) < Width
      ]_vars

\* Every operation has started, the last ones after waiting in the queue.
C8_Witness ==
    /\ Len(order) = NumOps
    /\ NumOps > Width
    /\ \A i \in 1..NumOps : order[i] = i

\* C9 (SpecLimiterFair): every operation submitted is eventually started and
\* the caller's promise takes the outcome of that very operation, fulfilled
\* or rejected, whatever the other operations do.
C9_EveryOpDelivered ==
    \A o \in Ops :
      (o \in DOMAIN op) ~>
        (/\ o \in StartedOps(op)
         /\ op[o].promise # None
         /\ op[o].promise = op[o].outcome
         /\ op[o].promise[1].value = ValueOf(o))

\* An operation failed and its caller saw the rejection; an operation that
\* had to wait in the queue behind it was delivered its own success.
C9_Witness ==
    \E f, o \in DOMAIN op :
      /\ f < o /\ o > Width
      /\ op[f].promise # None /\ ~op[f].promise[1].ok
      /\ op[o].promise = Some([ok |-> TRUE, value |-> ValueOf(o)])

(***************************************************************************)
(* Claims about the daily run (SpecRun)                                    *)
(***************************************************************************)
EventsOf(ev) == {i \in 1..Len(run.trace) : run.trace[i].ev = ev}
RunEnded == run.pc = "idle" /\ run.count > 0

\* C4: in a run that generated a digest, once sendDigestEmail has returned,
\* sent or failed, the next thing the run does is call appendDigest with that
\* digest: the run is at that call, or the call is the next event.
C4_ArchiveAfterDelivery ==
    \A i \in EventsOf("deliver") :
      EventsOf("generate") # {} =>
        IF i = Len(run.trace) THEN run.pc = "append"
        ELSE /\ run.trace[i + 1].ev = "append"
             /\ run.trace[i + 1].digest = run.trace[i].digest

\* A run whose email failed and whose digest is the last line of the file.
C4_Witness ==
    /\ RunEnded
    /\ \E i \in EventsOf("deliver") :
         /\ run.trace[i].status = "failed"
         /\ i + 1 \in EventsOf("append")
         /\ run.trace[i + 1].status = "ok"
    /\ Len(jsonl) >= 1
    /\ JsonParse(jsonl[Len(jsonl)]) = run.digest[1]

\* C5: a run whose query returned no article generates nothing, calls
\* sendDigestEmail once, with a nothing_notable digest of article_count 0,
\* and appends one line to the file.
C5_EmptyWindowAppends ==
    (RunEnded /\ run.n = 0 /\ EventsOf("fetch") = {}) =>
      /\ EventsOf("generate") = {}
      /\ Cardinality(EventsOf("deliver")) = 1
      /\ \A i \in EventsOf("deliver") :
           run.trace[i].digest.nothing_notable /\ run.trace[i].digest.article_count = 0
      /\ Cardinality(EventsOf("append")) = 1

\* The part of C5 the code does: no generation, one delivery of the empty digest.
EmptyWindowDelivers ==
    (RunEnded /\ run.n = 0 /\ EventsOf("fetch") = {}) =>
      /\ EventsOf("generate") = {}
      /\ Cardinality(EventsOf("deliver")) = 1
      /\ \A i \in EventsOf("deliver") :
           run.trace[i].digest.nothing_notable /\ run.trace[i].digest.article_count = 0

\* The steps of the current run that failed: those whose call rejected, and
\* those whose failure the callee absorbed.
Threw == {i \in 1..Len(run.trace) : run.trace[i].status = "threw"}
Absorbed == {i \in 1..Len(run.trace) : run.trace[i].status = "failed"}

\* error.message of the failure of a step.
MessageOf(ev) ==
    CASE ev = "fetch" -> "fetchAllFeeds"
      [] ev = "query" -> "getArticles"
      [] ev = "generate" -> "generateInsights"
      [] ev = "deliver" -> "sendDigestEmail"
      [] ev = "append" -> "appendDigest"

\* C12 as stated: the run never rejects, and a run in which a step failed
\* (fetch, store query, generation, delivery, archive append) ends idle with
\* the message of a failure of that run in lastError.
C12_EveryFailureRecorded ==
    /\ run.pc # "rejected"
    /\ (RunEnded /\ Threw \cup Absorbed # {}) =>
         \E i \in Threw \cup Absorbed :
           digestState.lastError = Some(MessageOf(run.trace[i].ev))

\* C12 as amended: the run never rejects; a call that rejects ends the run,
\* idle, with its message in lastError; a failure absorbed by the callee
\* (store query, generation, delivery) leaves no message of its own in
\* lastError and the run goes on to deliver.
C12_RejectionsRecorded ==
    /\ run.pc # "rejected"
    /\ \A i \in Threw :
         /\ i = Len(run.trace)
         /\ RunEnded
         /\ digestState.lastError = Some(MessageOf(run.trace[i].ev))
    /\ \A i \in Absorbed :
         /\ digestState.lastError # Some(MessageOf(run.trace[i].ev))
         /\ RunEnded => EventsOf("deliver") # {}

\* The second run: its generation and its delivery failed, both absorbed, and
\* then appendDigest rejected; the run is over and lastError has that message.
C12_Witness ==
    /\ RunEnded /\ run.count = 2
    /\ \E i \in EventsOf("generate") : i \in Absorbed
    /\ \E i \in EventsOf("deliver") : i \in Absorbed
    /\ \E i \in EventsOf("append") : i \in Threw
    /\ digestState.lastError = Some("appendDigest")

\* C13: when a run has completed without a rejection, along the generated
\* path or the empty-window path, lastError is null.
C13_SuccessClearsError ==
    (RunEnded /\ Threw = {}) => digestState.lastError = None

\* C28: whatever generateInsights met (an answer, no key, a timeout, an API
\* error, an answer that cannot be parsed), the run goes on with a digest of
\* one shape: three lists, the nothing_notable flag, article_count the number
\* of articles passed and source_count the number of their distinct sources;
\* and a finished run has sent and appended that digest, fallback or not.
C28_FallbackIsAnArtifact ==
    \A i \in EventsOf("generate") :
      LET d == run.trace[i].digest
      IN  /\ d = GeneratedDigest(run.n, run.sc, d.nothing_notable, d.date)
          /\ d.nothing_notable \in BOOLEAN
          /\ run.trace[i].status = "failed" => d.nothing_notable /\ d.top_insights = <<>>
          /\ run.pc \in {"weekly", "send", "append", "idle"}
          /\ RunEnded =>
                /\ \E j \in EventsOf("deliver") : j > i /\ run.trace[j].digest = d
                /\ \E j \in EventsOf("append") : j > i /\ run.trace[j].digest = d

\* A run whose generateInsights fell back on the nothing_notable digest of
\* MaxArticles articles from two sources, sent it and appended it.
C28_Witness ==
    /\ RunEnded
    /\ run.n = MaxArticles /\ run.sc = 2
    /\ \E i \in EventsOf("generate") :
         /\ run.trace[i].status = "failed"
         /\ run.trace[i].digest = NothingNotable(MaxArticles, 2, now)
    /\ \E j \in EventsOf("deliver") : run.trace[j].status = "sent"
    /\ jsonl # <<>> /\ jsonl[Len(jsonl)] = JsonStringify(NothingNotable(MaxArticles, 2, now))

\* The step ends a run that no failure cut short.
RunCompletes ==
    /\ run.pc # "idle" /\ run'.pc = "idle"
    /\ run'.trace # <<>> /\ run'.trace[Len(run'.trace)].status # "threw"

\* C31: the lines of signal-archive.jsonl stay as they are, in their places;
\* a step that completes a run appends one line, the digest of that run, and
\* no other step writes the file.
C31_LogOnlyGrows ==
    [][/\ Len(jsonl') >= Len(jsonl) /\ SubSeq(jsonl', 1, Len(jsonl)) = jsonl
       /\ IF RunCompletes
          THEN run'.digest # None /\ jsonl' = Append(jsonl, JsonStringify(run'.digest[1]))
          ELSE jsonl' = jsonl]_vars

(***************************************************************************)
(* Claims about the fetch phase (SpecFetch)                                *)
(***************************************************************************)
\* The records of the sources that succeeded, in the order of the sources.
RecordsOfSuccessful ==
    Flat([s \in Feeds |-> IF feed[s].failed THEN <<>> ELSE feed[s].items])
      \o Flat([j \in Scrapers |-> IF scraper[j][1].failed THEN <<>> ELSE scraper[j][1].items])

RECURSIVE SumLen(_)
SumLen(qs) == IF qs = <<>> THEN 0 ELSE Len(Head(qs)) + SumLen(Tail(qs))

CountOfSuccessful ==
    SumLen([s \in Feeds |-> IF feed[s].failed THEN <<>> ELSE feed[s].items])
      + SumLen([j \in Scrapers |-> IF scraper[j][1].failed THEN <<>> ELSE scraper[j][1].items])

\* C10: whichever sources fail (attempts used up, a page that cannot be
\* fetched or parsed), fetchAllFeeds does not throw, returns exactly the
\* records of the sources that succeeded, as many as their counts add up to,
\* and the run records no error.
C10_PartialFailureIsolation ==
    fetch.pc = "done" =>
      /\ ~fetch.threw
      /\ fetch.result = RecordsOfSuccessful
      /\ Len(fetch.result) = CountOfSuccessful
      /\ digestState.lastError = None
      /\ run.pc = "query"

\* The first RSS source failed after MaxRetries attempts and the first
\* scraper failed; every other source gave MaxItems records, apart from the
\* last scraper, which found none: the records of the three are returned
\* and stored.
C10_Witness ==
    /\ fetch.pc = "done"
    /\ feed[1].failed /\ feed[1].attempt = MaxRetries
    /\ \A s \in Feeds \ {1} : ~feed[s].failed /\ Len(feed[s].items) = MaxItems
    /\ scraper[1][1].failed
    /\ ~scraper[2][1].failed /\ Len(scraper[2][1].items) = MaxItems
    /\ ~scraper[3][1].failed /\ Len(scraper[3][1].items) = 0
    /\ Len(fetch.result) = NumFeeds * MaxItems
    /\ Cardinality(articles) = NumFeeds * MaxItems

(***************************************************************************)
(* Claims about one source fetch (SpecFetch)                               *)
(***************************************************************************)
\* The delays slept before attempt a: 1000, 2000, ...
DelaysBefore(a) == [i \in 1..(a - 1) |-> (2 ^ (i - 1)) * BaseDelayMs]

\* C11: a fetchRSS call makes at most MaxRetries (3) attempts, has slept
\* base delay x 2^(attempt-1) (1 s, then 2 s) before each attempt after the
\* first and nothing after the last, and when the attempts are used up its
\* promise is fulfilled with [] rather than rejected; once the call has
\* returned (at the first success or after the last attempt) it makes no
\* further attempt.
C11_BoundedRetry ==
    /\ [](\A s \in Feeds :
            /\ feed[s].attempt \in 1..MaxRetries
            /\ feed[s].waited = DelaysBefore(feed[s].attempt)
            /\ feed[s].failed =>
                 /\ feed[s].attempt = MaxRetries
                 /\ s \in DOMAIN op
                 /\ op[s].outcome = Some([ok |-> TRUE, value |-> <<>>]))
    /\ [][\A s \in Feeds :
            (s \in DOMAIN op /\ op[s].st # "running") => feed'[s] = feed[s]]_vars

\* One source used up its attempts, having slept 1 s and 2 s, and its caller
\* got []; another succeeded at its first attempt.
C11_Witness ==
    \E s, r \in Feeds :
      /\ feed[s].failed /\ feed[s].waited = <<1000, 2000>>
      /\ op[s].promise = Some([ok |-> TRUE, value |-> <<>>])
      /\ ~feed[r].failed /\ Len(feed[r].items) = MaxItems
      /\ op[r].st = "done"

(***************************************************************************)
(* Claims about archive browsing (SpecHistory)                             *)
(***************************************************************************)
\* The civil date in New York at hour i (UTC): UTC-5, and UTC-4 from the
\* start of daylight time.
NewYorkDate(i) == (i - (IF i < HoursPerDay + 7 THEN 5 ELSE 4)) \div HoursPerDay

ListReturned(p, fn) == call[p].pc = "returned" /\ call[p].fn = fn /\ call[p].ret # None
ListOf(p) == {call[p].ret[1][i] : i \in 1..Len(call[p].ret[1])}

\* C19: every row getArchivedInsights returns was generated on a New York
\* civil day strictly before the New York civil day of the call.
C19_HistoryBeforeToday ==
    \A p \in Slots :
      ListReturned(p, "getArchivedInsights") =>
        \A e \in ListOf(p) : NewYorkDate(e.generatedAt) < NewYorkDate(clock)

\* It is after midnight UTC and before midnight in New York; the archive has
\* a row generated the same New York day, on the UTC day before, and a row of
\* an earlier day: getArchivedInsights has returned the earlier one only.
C19_Witness ==
    \E p \in Slots : \E r, q \in archive :
      /\ ListReturned(p, "getArchivedInsights")
      /\ DateOf(r.generated_at) < DateOf(clock)
      /\ NewYorkDate(r.generated_at) = NewYorkDate(clock)
      /\ NewYorkDate(q.generated_at) < NewYorkDate(clock)
      /\ r.category = q.category
      /\ {e.id : e \in ListOf(p)} = {q.id}

\* C20: neither getArchivedInsightById nor searchArchivedInsights returns a
\* row generated on the New York civil day of the call.
C20_ByIdAndSearchBeforeToday ==
    \A p \in Slots :
      /\ (call[p].pc = "returned" /\ call[p].fn = "getArchivedInsightById"
            /\ call[p].ret # None)
           => NewYorkDate(call[p].ret[1].generatedAt) # NewYorkDate(clock)
      /\ ListReturned(p, "searchArchivedInsights") =>
           \A e \in ListOf(p) : NewYorkDate(e.generatedAt) # NewYorkDate(clock)

(***************************************************************************)
(* Claims about the volatile cache (SpecCache)                             *)
(***************************************************************************)
LruKeysOf(c) == {c[i].key : i \in 1..Len(c)}

\* C21: after any sequence of set, get, has, delete and clear the cache holds
\* at most its capacity of entries, one per key; and a set of a new key into
\* a full cache removes exactly the key whose last use (get or set) is the
\* oldest.
C21_CapacityAndLru ==
    /\ [](/\ Len(lru) <= LruCapacity
          /\ Cardinality(LruKeysOf(lru)) = Len(lru))
    /\ [][\A k \in LruKeys, v \in LruValues :
            (k \notin LruKeysOf(lru) /\ Len(lru) = LruCapacity /\ LruSetOp(k, v)) =>
              LruKeysOf(lru') = (LruKeysOf(lru) \ {lruUse[1].key}) \cup {k}]_vars

\* The cache was full with keys 1 and 2, key 1 set the day before key 2 and
\* used since; the set of key 3 has evicted key 2.
C21_Witness ==
    /\ Len(lru) = LruCapacity
    /\ LruKeysOf(lru) = {1, 3}
    /\ lruUse[1].key = 1 /\ lruUse[1].setAt = 0
    /\ lruUse[2].key = 3 /\ lruUse[2].setAt = 1
    /\ lruRet = Ret("set", 3, None, "Evicted oldest entry")

\* C22: get never returns, and has never reports, an entry set more than the
\* time-to-live ago, also when it was read since; such a get or has reports a
\* miss and the entry is gone.
C22_NoExpiredEntry ==
    [][\A k \in LruKeys :
         (k \in LruKeysOf(lru) /\ now - SetAt(lruUse, k) > TtlDays) =>
           /\ LruGetOp(k) => (lruRet'.value = None /\ k \notin LruKeysOf(lru'))
           /\ LruHasOp(k) => (lruRet'.value = Some(FALSE) /\ k \notin LruKeysOf(lru'))]_vars

\* Two days after the first set a get has just found its key expired: the
\* key is gone, and a key set a day later is still there.
C22_Witness ==
    /\ now = 2
    /\ lruRet = Ret("get", 1, None, "Entry expired")
    /\ LruKeysOf(lru) = {2}
    /\ SetAt(lruUse, 2) = 1

(***************************************************************************)
(* Claims about overlapping fetch phases (SpecOverlap)                     *)
(***************************************************************************)
\* The source fetches in flight: fetchRSS calls started and scrapers called,
\* not yet returned, over all the calls of fetchAllFeeds in progress.
RECURSIVE SumOver(_, _)
SumOver(f, S) ==
    IF S = {} THEN 0
    ELSE LET x == CHOOSE y \in S : TRUE IN f[x] + SumOver(f, S \ {x})

InFlight == SumOver([p \in Callers |-> phase[p].active + Cardinality(phase[p].scraping)], Callers)

\* C23: every source fetch in flight, of a feed or of a scraper, holds a slot
\* of the limiter, and at every moment at most RssConcurrency source fetches
\* are in flight, over all the fetch phases in progress.
C23_AllThroughLimiter ==
    /\ \A p \in Callers : phase[p].scraping = {}
    /\ InFlight <= RssConcurrency

(***************************************************************************)
(* Claims about the scrape adapters (SpecScrape)                           *)
(***************************************************************************)
ScrapeReturned == scrape.pc = "returned"

\* The title and the link an adapter gives the entry of an element.
EntryTitle(adapter, el) == IF adapter = "blend" THEN Truncated(el.title) ELSE el.title
EntryLink(adapter, el) ==
    IF el.href \in {None, Some("")} \/ el.href[1] \in AbsoluteHrefs \/ adapter = "blend"
    THEN OrElse(el.href, "")
    ELSE (IF adapter = "rocket" THEN "https://rocketcompanies.com" ELSE "https://www.ice.com")
           \o el.href[1]

\* The elements of the page that come before the one entry k was built from
\* and have its title.
EarlierSameTitle(k) ==
    LET from == {i \in 1..Len(scrape.page) :
                   /\ EntryTitle(scrape.adapter, scrape.page[i]) = scrape.out[k].title
                   /\ EntryLink(scrape.adapter, scrape.page[i]) = scrape.out[k].link}
        first == CHOOSE i \in from : \A j \in from : i <= j
    IN  {j \in 1..(first - 1) :
           EntryTitle(scrape.adapter, scrape.page[j]) = scrape.out[k].title}

\* The element is one the adapter takes an entry from, its title apart.
Eligible(adapter, el) ==
    /\ el.title.len >= MinTitleLength
    /\ adapter = "rocket" => el.href \notin {None, Some("")}
    /\ adapter = "blend" => OrElse(el.href, "") \in NewsHrefs
    /\ adapter = "ice" => el.row

C25_WellFormedEntries ==
    ScrapeReturned =>
      /\ \A k \in 1..Len(scrape.out) :
            /\ scrape.out[k].title.len >= MinTitleLength
            /\ scrape.out[k].link # ""
      /\ Len(scrape.out) <= scrape.max

\* The page without the elements whose date text cannot be parsed.
WellDated(page) == SelectSeq(page, LAMBDA el : el.date # "bad")

\* C26: when the page of a scrape adapter has elements whose date text cannot
\* be parsed, the adapter returns what it returns for the page without them.
C26_MalformedRecordSkipped ==
    (ScrapeReturned /\ scrape.ok) =>
      scrape.out = ScrapeNewsroom(scrape.adapter, TRUE, WellDated(scrape.page), scrape.max, now)

(***************************************************************************)
(* Claims about delivery (SpecMail)                                        *)
(***************************************************************************)
MailReturned == mail.pc = "returned"

\* C27: a call of sendDigestEmail is always at one of its awaits or returned
\* (it has not thrown); it returns sent, or failed with a reason, after at
\* most SendAttempts calls of the provider; and it returns failed only when
\* it made no call (configuration missing) or the second call was rejected.
C27_DeliveryStatus ==
    /\ mail.pc \in {"idle", "send", "wait", "returned"}
    /\ Len(mail.tried) <= SendAttempts
    /\ MailReturned =>
         /\ mail.ret # None
         /\ mail.ret[1].status \in {"sent", "failed"}
         /\ mail.ret[1].status = "failed" =>
              /\ mail.ret[1].error # None
              /\ \/ mail.tried = <<>> /\ mail.subject = None
                 \/ mail.tried = <<"rejected", "rejected">>
         /\ mail.ret[1].status = "sent" =>
              mail.tried \in {<<"resolved">>, <<"rejected", "resolved">>}

\* Both provider calls were rejected, 60 seconds apart, and failed is
\* returned with the message of the second rejection.
C27_Witness ==
    /\ MailReturned
    /\ mail.tried = <<"rejected", "rejected">>
    /\ mail.waited = <<RetryWaitMs>>
    /\ mail.ret = Some([status |-> "failed", id |-> None, error |-> Some("timeout")])

(***************************************************************************)
(* Claims about the queries of the content store (SpecQuery)               *)
(***************************************************************************)
\* The keyword, in lower case, occurs in the title or in the summary.
Mentions(r, keyword) ==
    \/ Lower(keyword) \in FragmentsOf(Lower(r.title))
    \/ Lower(keyword) \in FragmentsOf(Lower(r.summary.id))

\* The stored rows a call with filters f is to return.
Wanted(f) ==
    {r \in articles :
       /\ f.source # None => r.source = f.source[1]
       /\ f.category # None => r.category = f.category[1]
       /\ f.startDate # None => r.pub_date >= f.startDate[1]
       /\ f.endDate # None => r.pub_date <= f.endDate[1]
       /\ Mentions(r, f.keyword[1])}

\* C29: a call of getArticles with a keyword, alone or with other filters,
\* made while the database is in reach returns the stored articles that pass
\* every filter and mention the keyword in title or summary (all of them, up
\* to QueryLimit), each once, newest pub_date first.
C29_KeywordQuery ==
    (asked.calls > 0 /\ asked.filters.keyword # None /\ ~asked.failed) =>
      /\ Len(asked.ret) = Min(Cardinality(Wanted(asked.filters)), QueryLimit)
      /\ \A i \in DOMAIN asked.ret :
            \E r \in Wanted(asked.filters) : asked.ret[i] = FormatRow(r)
      /\ \A i, j \in DOMAIN asked.ret :
            i < j => asked.ret[i] # asked.ret[j] /\ asked.ret[i].pubDate >= asked.ret[j].pubDate

(***************************************************************************)
(* Claims about retention (SpecSweep)                                      *)
(***************************************************************************)
Horizon == now - RetentionDays

\* C30: among upserts in any order, every call of cleanOldArticles that the
\* database carries out removes the rows published before the horizon of
\* the call, no other row, and returns their number; a call that fails
\* leaves the table as it is and returns 0; and no row ever removed was
\* published at or after the horizon of the call that removed it.
C30_SweepOnlyBeforeHorizon ==
    /\ [](\A g \in sweep.gone : g.row.pub_date < g.horizon)
    /\ [][sweep'.calls # sweep.calls =>
            /\ sweep'.ret # None
            /\ IF sweep'.failed
               THEN articles' = articles /\ sweep'.ret[1].removed = 0
               ELSE /\ articles' = {r \in articles : r.pub_date >= Horizon}
                    /\ sweep'.ret[1].removed = Cardinality(articles) - Cardinality(articles')]_vars

\* A sweep has removed one row while the row published on the day of the
\* horizon stayed; a later sweep, a day on, failed and removed nothing.
C30_Witness ==
    /\ sweep.calls = 2 /\ sweep.failed /\ sweep.ret = Some([removed |-> 0])
    /\ now = 1
    /\ \E g \in sweep.gone : g.horizon = 0 - RetentionDays /\ g.row.pub_date = g.horizon - 1
    /\ \E r \in articles : r.pub_date = 0 - RetentionDays

(***************************************************************************)
(* Claims about the Friday check (SpecRollup)                              *)
(***************************************************************************)
\* It is Friday in New York at hour i.
NewYorkFriday(i) == (NewYorkDate(i) + StartWeekday) % 7 = Friday

\* C32: a run with articles calls the weekly summary of the last 5 archived
\* digests exactly when the day in New York is Friday, and sendDigestEmail
\* gets the summary's bullets together with the digest of the day.
C32_RollupOnNewYorkFriday ==
    [][/\ (rollup.pc = "idle" /\ rollup'.pc # "idle")
            => (rollup'.pc = "weekly" <=> NewYorkFriday(clock))
       /\ (rollup.pc = "weekly" /\ rollup'.pc = "send")
            => \E file \in ArchivedFiles :
                 rollup'.recent = Some(ReadRecentDigests(file, RecentCount))
       /\ (rollup.pc = "send" /\ rollup'.pc = "idle")
            => /\ rollup'.sent[1].digest = rollup.digest[1]
               /\ rollup'.sent[1].weeklyBullets = rollup.weeklyBullets
               /\ (rollup.recent # None) = (rollup.weeklyBullets # None)]_vars

(***************************************************************************)
(* Claims about a missing configuration (SpecEnv)                          *)
(***************************************************************************)
LastEvent == run.trace[Len(run.trace)]
Undeliverable == env.set /\ ~(env.DIGEST_EMAIL /\ env.RESEND_API_KEY)
Keyless == env.set /\ ~env.ANTHROPIC_API_KEY

\* The run went on from generateInsights to sendDigestEmail and appendDigest
\* with the digest d, as far as it has come.
WentOnWith(d) ==
    /\ run.pc \in {"weekly", "send"} => EventsOf("deliver") = {}
    /\ run.pc \in {"append", "idle"} =>
         \E i \in EventsOf("deliver") : run.trace[i].digest = d
    /\ run.pc = "idle" =>
         /\ LastEvent.ev = "append" /\ LastEvent.digest = d
         /\ LastEvent.status = "ok" =>
              /\ jsonl # <<>> /\ jsonl[Len(jsonl)] = JsonStringify(d)
              /\ digestState.lastError = None

\* C33: in a run with articles, without ANTHROPIC_API_KEY generateInsights
\* returns a nothing_notable digest with the number of the articles and of
\* their sources, and the run sends and archives it; without DIGEST_EMAIL or
\* RESEND_API_KEY every delivery is recorded as failed and the generated
\* digest is archived all the same; neither step touches lastError.
C33_MissingConfigDegrades ==
    /\ [](\A i \in EventsOf("generate") :
            /\ Keyless =>
                 /\ run.trace[i].digest.nothing_notable = TRUE
                 /\ run.trace[i].digest.top_insights = <<>>
                 /\ run.trace[i].digest.article_count = run.n /\ run.n > 0
                 /\ run.trace[i].digest.source_count = run.sc /\ run.sc > 0
                 /\ WentOnWith(run.trace[i].digest)
            /\ Undeliverable => WentOnWith(run.trace[i].digest))
    /\ [](Undeliverable =>
            /\ \A i \in EventsOf("deliver") : run.trace[i].status = "failed"
            /\ digestState.emailStatus \in {None, Some("failed")})
    /\ [][(Keyless \/ Undeliverable) /\ run.pc \in {"generate", "weekly", "send"}
            => digestState'.lastError = digestState.lastError]_vars

\* A run of a process without any of the three settings has ended: the
\* digest of its two articles of two sources, nothing_notable, went to
\* sendDigestEmail, which returned failed, and is the line of the archive.
C33_Witness ==
    /\ Keyless /\ Undeliverable /\ ~env.DIGEST_EMAIL /\ ~env.RESEND_API_KEY
    /\ RunEnded /\ run.n = 2 /\ run.sc = 2
    /\ LastEvent.ev = "append" /\ LastEvent.status = "ok"
    /\ jsonl = <<JsonStringify(NothingNotable(2, 2, now))>>
    /\ digestState.emailStatus = Some("failed")
    /\ digestState.lastError = None

(***************************************************************************)
(* Claims about the trigger surface (SpecTrigger, SpecTriggerFair)         *)
(***************************************************************************)
Requested == trig'.requests # trig.requests
RunBegins == run.pc = "idle" /\ run'.pc # "idle"

\* C34: a trigger request whose token is not the secret is answered with a
\* rejection and changes nothing: the run, digestState, the archive file and
\* the probe are as they were, no fetch phase starts; a run begins only in
\* the step of a request whose token is the secret itself.
C34_WrongTokenRejected ==
    [][/\ Requested /\ trig'.token # Some("secret")
            => /\ trig'.reply = Some(401)
               /\ run' = run /\ digestState' = digestState /\ jsonl' = jsonl
               /\ trig'.probe = trig.probe /\ trig'.pc = trig.pc
       /\ RunBegins
            => /\ Requested /\ trig'.token = Some("secret") /\ trig'.reply = Some(200)
               /\ run'.pc = "fetch"]_vars

\* A request with the secret started a run; while the run was generating, a
\* request with the secret followed by a blank was rejected.
C34_Witness ==
    /\ trig.requests = 2 /\ trig.token = Some("secret ") /\ trig.reply = Some(401)
    /\ run.count = 1 /\ run.pc = "generate" /\ trig.probe

\* C35: the probe is on only while the run a request started is executing:
\* it is on from the step the run begins, it is off once the handler has seen
\* the run end, however the run ended, and every probe that is on is
\* stopped.
C35_ProbeScopedToRun ==
    /\ [](trig.probe => trig.pc = "running")
    /\ [](run.pc # "idle" => trig.probe)
    /\ [][RunBegins => trig'.probe]_vars
    /\ [][trig.pc = "running" /\ trig'.pc = "idle" => trig.probe /\ ~trig'.probe]_vars
    /\ (trig.probe ~> ~trig.probe)

\* A triggered run ended in its catch block and the probe is off.
C35_Witness ==
    /\ trig.pc = "idle" /\ ~trig.probe /\ trig.requests > 0
    /\ run.count = 1 /\ run.pc = "idle" /\ LastEvent.status = "threw"
    /\ digestState.lastError # None

(***************************************************************************)
(* Claims about POST /api/insights (SpecDemand)                            *)
(***************************************************************************)
\* The insights of a category generated within the last 3 days that the
\* cache holds unexpired, or that a row of the archive holds.
RecentInCache(cat) ==
    {e.value : e \in {c \in Range(cache) :
                        /\ c.key = cat /\ ~Expired(c, now)
                        /\ c.value.generatedAt # None
                        /\ now - c.value.generatedAt[1] < 3}}
RecentInArchive(cat) ==
    {r \in archive : r.category = cat /\ now - r.generated_at < 3}

\* C36: POST /api/insights calls generateInsights only when neither the cache
\* nor the archive holds insights of the requested category generated within
\* the last 3 days, and otherwise replies with such insights, whatever the
\* category, 'all' included.
C36_GenerateOnlyWithoutRecent ==
    [][/\ (demand.pc = "today" /\ demand'.pc = "generate")
            => RecentInCache(demand.cat) = {} /\ RecentInArchive(demand.cat) = {}
       /\ (demand.pc = "today" /\ demand'.pc = "idle")
            => /\ demand'.reply # None
               /\ demand'.reply[1].generatedAt # None
               /\ now - demand'.reply[1].generatedAt[1] < 3]_vars

(***************************************************************************)
(* Claims about the force refresh (SpecRefresh)                            *)
(***************************************************************************)
\* The request is one the claim lets through: the password is the configured
\* one, the category is valid, no refresh was accepted in the last 60 minutes.
Admissible(pw, cat) ==
    /\ refresh.adminPassword # None /\ pw = refresh.adminPassword
    /\ cat \in {"mortgage", "product-management", "competitor-intel", "all"}
    /\ \/ refresh.lastForceRefreshTime = None
       \/ refresh.minute - refresh.lastForceRefreshTime[1] >= 60

\* C37: a refresh request goes on to clear the archive and the cache only
\* with the right password, outside the cooldown and with a valid category,
\* and any other request is answered with its rejection and leaves archive,
\* cache and lastForceRefreshTime as they were; nothing but an admitted
\* request clears; and a refresh is accepted only if none was accepted in
\* the 60 minutes before its request.
C37_RefreshGuarded ==
    [][/\ \A r \in RefreshSlots, pw \in Passwords, cat \in RefreshCategories :
            RefreshRequest(r, pw, cat) =>
              IF Admissible(pw, cat)
              THEN refresh'.req[r].pc = "delete" /\ refresh'.req[r].cat = cat
              ELSE /\ refresh'.status \in {Some(503), Some(401), Some(429), Some(400)}
                   /\ refresh'.req = refresh.req
                   /\ refresh'.lastForceRefreshTime = refresh.lastForceRefreshTime
                   /\ archive' = archive /\ cache' = cache
       /\ \A r \in RefreshSlots :
            (refresh.req[r].pc # "idle" /\ refresh'.req[r].pc = "idle") =>
              /\ refresh'.status = Some(200)
              /\ \/ refresh.lastForceRefreshTime = None
                 \/ refresh.req[r].now - refresh.lastForceRefreshTime[1] >= 60
                 \/ refresh.lastForceRefreshTime[1] - refresh.req[r].now >= 60]_vars

(***************************************************************************)
(* Claims about the limiter's count (SpecLimiter)                          *)
(***************************************************************************)
\* The operations whose promise has settled and whose reactions (then, catch,
\* finally) have not all run yet.
Reacting(f) == {o \in DOMAIN f : f[o].st \in {"settled", "delivered"}}

\* C38: active is the number of operations started whose finally handler has
\* not run yet, which is the number of operations started and not settled
\* whenever no promise reaction is pending; it is never negative; and when
\* every operation submitted is through, after success or failure, active is
\* 0 and the queue is empty.
C38_ActiveCountsStarted ==
    /\ active = Cardinality({o \in DOMAIN op : op[o].st \notin {"queued", "done"}})
    /\ Reacting(op) = {} => active = Cardinality({o \in DOMAIN op : op[o].st = "running"})
    /\ active >= 0
    /\ (\A o \in DOMAIN op : op[o].st = "done") => active = 0 /\ queue = <<>>

\* More operations than the width were submitted and all are through, one of
\* them after a failure, one after a success: no slot is taken, none waits.
C38_Witness ==
    /\ Len(op) > Width
    /\ \A o \in DOMAIN op : op[o].st = "done"
    /\ \E o \in DOMAIN op : ~op[o].outcome[1].ok
    /\ \E o \in DOMAIN op : op[o].outcome[1].ok
    /\ active = 0 /\ queue = <<>>

(***************************************************************************)
(* Claims about a failed query of the run (SpecEnv)                        *)
(***************************************************************************)
QueryFailedIn(r) == \E i \in 1..Len(r.trace) : r.trace[i].ev = "query" /\ r.trace[i].status = "failed"

\* C39: a run whose getArticles query failed goes on as a run with no
\* articles: articleCount is 0, generateInsights and appendDigest are not
\* called, the digest sent is the nothing_notable digest of no articles, and
\* no step of the run from the failure on changes lastError.
C39_QueryFailureIsEmptyWindow ==
    /\ [](QueryFailedIn(run) =>
            /\ run.pc \in {"empty", "idle"}
            /\ run.n = 0 /\ digestState.articleCount = 0
            /\ EventsOf("generate") = {} /\ EventsOf("append") = {}
            /\ run.pc = "empty" => EventsOf("deliver") = {}
            /\ run.pc = "idle" =>
                 /\ Len(run.trace) = 2 /\ run.trace[2].ev = "deliver"
                 /\ run.trace[2].digest.nothing_notable = TRUE
                 /\ run.trace[2].digest.top_insights = <<>>
                 /\ run.trace[2].digest.article_count = 0
                 /\ digestState.emailStatus = Some(run.trace[2].status))
    /\ [][QueryFailedIn(run') /\ run'.count = run.count
            => digestState'.lastError = digestState.lastError]_vars

\* A first run whose query failed has ended: the empty digest was sent and
\* lastError is not set.
C39_Witness ==
    /\ RunEnded /\ run.count = 1 /\ QueryFailedIn(run)
    /\ run.trace[2].ev = "deliver" /\ run.trace[2].status = "sent"
    /\ digestState.lastError = None /\ digestState.emailStatus = Some("sent")

====
